---- MODULE Spec2Model ----
(***************************************************************************)
(* Model of the MeshCore node simulator (sim/packet.py, sim/config.py,     *)
(* sim/advert.py, sim/node.py, sim/runner.py, sim/radio_env.py).           *)
(*                                                                         *)
(* Bytes are naturals 0..255, byte strings are sequences of bytes.  A      *)
(* 32-bit packet id is kept as the pair <<high 16 bits, low 16 bits>> so   *)
(* that the DJB2 arithmetic stays exact.  Every handler of a node is an    *)
(* operator from the node record (and its inputs) to the node record       *)
(* after the handler has returned.                                         *)
(***************************************************************************)
EXTENDS Integers, Sequences, FiniteSets, TLC

VARIABLES
    clock,   \* VirtualClock._ms, shared by every node
    node,    \* node name -> node record
    air,     \* RadioEnvironment._in_flight: frames sent and not yet delivered
    hist,    \* history: node name -> the packet ids its dedup cache took in, in order
    last     \* history: the entry point that ran last, its inputs, the node before it

vars == <<clock, node, air, hist, last>>

(***************************************************************************)
(* Program constants                                                       *)
(***************************************************************************)
MC_MAX_PATH_SIZE == 64
MC_MAX_PAYLOAD_SIZE == 180

MC_ROUTE_TRANSPORT_FLOOD == 0
MC_ROUTE_FLOOD == 1
MC_ROUTE_DIRECT == 2
MC_ROUTE_TRANSPORT_DIRECT == 3

MC_PAYLOAD_REQUEST == 0
MC_PAYLOAD_RESPONSE == 1
MC_PAYLOAD_PLAIN == 2
MC_PAYLOAD_ACK == 3
MC_PAYLOAD_ADVERT == 4
MC_PAYLOAD_GROUP_TEXT == 5
MC_PAYLOAD_ANON_REQ == 7
MC_PAYLOAD_VER_1 == 0

MC_TYPE_CHAT_NODE == 1
MC_TYPE_REPEATER == 2
MC_TYPE_MASK == 15
MC_FLAG_HAS_LOCATION == 16
MC_FLAG_HAS_NAME == 128

MC_PUBLIC_KEY_SIZE == 32
MC_SIGNATURE_SIZE == 64
MC_NODE_NAME_MAX == 16

ADVERT_PUBKEY_OFFSET == 0
ADVERT_TIMESTAMP_OFFSET == 32
ADVERT_FLAGS_OFFSET == 100
ADVERT_MIN_SIZE == 101

CONSENSUS_WINDOW_MS == 3600000
MAX_TIMESTAMP_DIFF == 300

MC_PACKET_ID_CACHE == 32
MC_MAX_SEEN_NODES == 16
MC_TX_QUEUE_SIZE == 4
RATE_LIMIT_FORWARD_MAX == 100
RATE_LIMIT_FORWARD_SECS == 60
DEFAULT_ADVERT_INTERVAL_MS == 300000

MAILBOX_SLOTS == 2
MAILBOX_RAM_SLOTS == 4
MAILBOX_TTL_SEC == 86400
HEALTH_OFFLINE_MS == 1800000

CB_SNR_THRESHOLD == 0 - 40
CB_TIMEOUT_MS == 300000
CB_STATE_CLOSED == 0
CB_STATE_OPEN == 1
CB_STATE_HALF_OPEN == 2

ADAPTIVE_TX_HIGH_SNR == 40
ADAPTIVE_TX_LOW_SNR == 0 - 20
ADAPTIVE_TX_STEP == 2
ADAPTIVE_TX_MIN_POWER == 5
DEFAULT_TX_POWER == 14

ADVERT_AFTER_SYNC_MS == 5000
MC_MIN_RSSI_FORWARD == 0 - 120
QUIET_DISABLED == 255
QUIET_FORWARD_MAX_DEFAULT == 30
QUIET_EVAL_PERIOD_MS == 60000

(***************************************************************************)
(* Bytes, byte strings and text                                            *)
(***************************************************************************)
Byte == 0..255

Zeros(n) == [i \in 1..n |-> 0]

Min(a, b) == IF a < b THEN a ELSE b

Abs(a) == IF a < 0 THEN 0 - a ELSE a

\* data[from .. to-1] with Python's slice clipping (0-based offsets)
Slice(s, from, to) ==
    LET hi == Min(to, Len(s))
    IN  IF from >= hi THEN <<>> ELSE [i \in 1..(hi - from) |-> s[from + i]]

Last(s) == s[Len(s)]

Contains(s, x) == \E i \in 1..Len(s) : s[i] = x

RECURSIVE Xor8(_, _, _)
\* bitwise exclusive or of the low k bits of a and b
Xor8(a, b, k) ==
    IF k = 0 THEN 0
    ELSE (((a % 2) + (b % 2)) % 2) + 2 * Xor8(a \div 2, b \div 2, k - 1)

\* struct.pack('<I', v): four bytes, least significant first
PackLE32(v) ==
    <<v % 256, (v \div 256) % 256, (v \div 65536) % 256, (v \div 16777216) % 256>>

\* struct.unpack_from('<I', data, off)
UnpackLE32(data, off) ==
    data[off + 1] + (256 * data[off + 2]) + (65536 * data[off + 3])
        + (16777216 * data[off + 4])

RECURSIVE DecDigits(_)
\* decimal digits of a natural, as ASCII
DecDigits(n) ==
    IF n < 10 THEN <<48 + n>> ELSE DecDigits(n \div 10) \o <<48 + (n % 10)>>

\* str(n).encode() as used by the f-strings of node.py
DecStr(n) == IF n < 0 THEN <<45>> \o DecDigits(0 - n) ELSE DecDigits(n)

(***************************************************************************)
(* sim/packet.py                                                           *)
(***************************************************************************)
make_header(route, payload_type, version) ==
    (route % 4) + ((payload_type % 16) * 4) + ((version % 4) * 64)

get_route_type(header) == header % 4

get_payload_type(header) == (header \div 4) % 16

get_version(header) == (header \div 64) % 4

\* MCPacket.__init__
MCPacket == [header |-> 0, path |-> <<>>, payload |-> <<>>,
             rx_time |-> 0, snr |-> 0, rssi |-> 0]

MkPacket(header, path, payload) ==
    [MCPacket EXCEPT !.header = header, !.path = path, !.payload = payload]

\* the transmitted part of a packet
Wire(pkt) == [header |-> pkt.header, path |-> pkt.path, payload |-> pkt.payload]

is_flood(pkt) ==
    get_route_type(pkt.header) \in {MC_ROUTE_FLOOD, MC_ROUTE_TRANSPORT_FLOOD}

is_direct(pkt) ==
    get_route_type(pkt.header) \in {MC_ROUTE_DIRECT, MC_ROUTE_TRANSPORT_DIRECT}

serialize(pkt) == <<pkt.header, Len(pkt.path)>> \o pkt.path \o pkt.payload

NoPacket == [none |-> TRUE]

\* deserialize that rejects a declared path length of MC_MAX_PATH_SIZE
deserialize_below_max(data) ==
    IF Len(data) < 2 THEN NoPacket
    ELSE LET path_len == data[2]
         IN  IF path_len >= MC_MAX_PATH_SIZE THEN NoPacket
             ELSE IF 2 + path_len > Len(data) THEN NoPacket
             ELSE MkPacket(data[1],
                           Slice(data, 2, 2 + path_len),
                           Slice(data, 2 + path_len,
                                 2 + path_len + MC_MAX_PAYLOAD_SIZE))

deserialize(data) ==
    IF Len(data) < 2 THEN NoPacket
    ELSE LET path_len == data[2]
         IN  IF path_len > MC_MAX_PATH_SIZE THEN NoPacket
             ELSE IF 2 + path_len > Len(data) THEN NoPacket
             ELSE MkPacket(data[1],
                           Slice(data, 2, 2 + path_len),
                           Slice(data, 2 + path_len,
                                 2 + path_len + MC_MAX_PAYLOAD_SIZE))

\* one DJB2 round on a 32-bit value <<hi, lo>>: h = (((h << 5) + h) ^ b) mod 2^32
Djb2Step(h, b) ==
    LET lo33 == h[2] * 33
        hi33 == h[1] * 33 + (lo33 \div 65536)
        lo   == lo33 % 65536
    IN  <<hi33 % 65536, (lo - (lo % 256)) + Xor8(lo % 256, b, 8)>>

RECURSIVE Djb2Fold(_, _, _, _)
\* rounds over s[i..n]
Djb2Fold(h, s, i, n) ==
    IF i > n THEN h ELSE Djb2Fold(Djb2Step(h, s[i]), s, i + 1, n)

\* 5381 = 0 * 65536 + 5381
Djb2Seed == <<0, 5381>>

get_packet_id(pkt) ==
    LET h0 == Djb2Step(Djb2Seed, pkt.header)
        h1 == Djb2Fold(h0, pkt.path, 1, Min(Len(pkt.path), 8))
    IN  Djb2Fold(h1, pkt.payload, 1, Min(Len(pkt.payload), 16))

(***************************************************************************)
(* sim/config.py: sighting table, dedup cache, TX queue, mailbox, limiter  *)
(***************************************************************************)
Stats == [rx_count |-> 0, tx_count |-> 0, fwd_count |-> 0, err_count |-> 0,
          adv_tx_count |-> 0, adv_rx_count |-> 0]

SeenIndex(nodes, hash_val) ==
    IF \E i \in 1..Len(nodes) : nodes[i].hash = hash_val
    THEN CHOOSE i \in 1..Len(nodes) :
            /\ nodes[i].hash = hash_val
            /\ \A j \in 1..(i - 1) : nodes[j].hash # hash_val
    ELSE 0

\* eviction always taking the first entry of the table
SeenOldestIndex_first(nodes) == 1

\* index of the first entry with the smallest last_seen
SeenOldestIndex(nodes) ==
    CHOOSE i \in 1..Len(nodes) :
        /\ \A j \in 1..Len(nodes) : nodes[i].last_seen <= nodes[j].last_seen
        /\ \A j \in 1..(i - 1) : nodes[j].last_seen > nodes[i].last_seen

\* SeenNodesTracker.update; name = <<>> stands for None or ""
SeenNodesTracker_update(nodes, hash_val, rssi, snr, name, now_ms) ==
    LET i == SeenIndex(nodes, hash_val)
        fresh == [hash |-> hash_val, last_rssi |-> rssi, last_snr |-> snr,
                  pkt_count |-> 1, last_seen |-> now_ms, name |-> name]
    IN  IF i # 0
        THEN [nodes EXCEPT ![i] =
                [@ EXCEPT !.last_rssi = rssi, !.last_snr = snr,
                          !.pkt_count = @ + 1, !.last_seen = now_ms,
                          !.name = IF name # <<>> THEN name ELSE @]]
        ELSE IF Len(nodes) < MC_MAX_SEEN_NODES
        THEN Append(nodes, fresh)
        ELSE [nodes EXCEPT ![SeenOldestIndex(nodes)] = fresh]

\* SeenNodesTracker.get_by_hash: the entry, or NoSeen
NoSeen == [none |-> TRUE]

get_by_hash(nodes, hash_val) ==
    IF SeenIndex(nodes, hash_val) = 0 THEN NoSeen
    ELSE nodes[SeenIndex(nodes, hash_val)]

\* PacketIdCache.__init__: ids are 32-bit values <<hi, lo>>, all zero; pos is 0-based
PacketIdCache == [ids |-> [i \in 1..MC_PACKET_ID_CACHE |-> <<0, 0>>], pos |-> 0]

PacketIdCache_has(cache, pkt_id) == Contains(cache.ids, pkt_id)

\* the return value of PacketIdCache.add_if_new
PacketIdCache_is_new(cache, pkt_id) == ~PacketIdCache_has(cache, pkt_id)

\* add_if_new without the membership test: every id is written to the ring
PacketIdCache_add_always(cache, pkt_id) ==
    [ids |-> [cache.ids EXCEPT ![cache.pos + 1] = pkt_id],
     pos |-> (cache.pos + 1) % Len(cache.ids)]

\* the cache after PacketIdCache.add_if_new
PacketIdCache_add_if_new(cache, pkt_id) ==
    IF PacketIdCache_has(cache, pkt_id) THEN cache
    ELSE [ids |-> [cache.ids EXCEPT ![cache.pos + 1] = pkt_id],
          pos |-> (cache.pos + 1) % Len(cache.ids)]

\* TxQueue.add without the size check
TxQueue_add_unbounded(queue, pkt) == Append(queue, pkt)

\* TxQueue.add: the queue afterwards (the stored element is pkt.copy())
TxQueue_add(queue, pkt) ==
    IF Len(queue) >= MC_TX_QUEUE_SIZE THEN queue ELSE Append(queue, pkt)

\* the return value of TxQueue.add
TxQueue_add_ok(queue) == Len(queue) < MC_TX_QUEUE_SIZE

\* MailboxSlot(), and MailboxSlot.clear
MailboxSlot == [dest_hash |-> 0, timestamp |-> 0, pkt_data |-> <<>>]

is_empty(slot) == Len(slot.pkt_data) = 0

\* Mailbox.__init__: slots 1..MAILBOX_SLOTS are eeprom_slots, the rest ram_slots
Mailbox == [i \in 1..(MAILBOX_SLOTS + MAILBOX_RAM_SLOTS) |-> MailboxSlot]

EepromIdx == 1..MAILBOX_SLOTS

RamIdx == (MAILBOX_SLOTS + 1)..(MAILBOX_SLOTS + MAILBOX_RAM_SLOTS)

AllIdx == 1..(MAILBOX_SLOTS + MAILBOX_RAM_SLOTS)

\* least element of a nonempty set of slot indexes
FirstOf(S) == CHOOSE i \in S : \A j \in S : i <= j

\* is_duplicate looking at the persistent slots only
is_duplicate_eeprom_only(mbox, data) ==
    \E i \in EepromIdx : ~is_empty(mbox[i]) /\ mbox[i].pkt_data = data

is_duplicate(mbox, data) ==
    \E i \in AllIdx : ~is_empty(mbox[i]) /\ mbox[i].pkt_data = data

\* the return value of Mailbox.store
Mailbox_store_ok(mbox, pkt_data) ==
    Len(pkt_data) # 0 /\ ~is_duplicate(mbox, pkt_data)

\* store overwriting the first volatile slot when every slot is taken
Mailbox_store_slot_first_ram(mbox) ==
    LET freeE == {i \in EepromIdx : is_empty(mbox[i])}
        freeR == {i \in RamIdx : is_empty(mbox[i])}
    IN  IF freeE # {} THEN FirstOf(freeE)
        ELSE IF freeR # {} THEN FirstOf(freeR)
        ELSE FirstOf(RamIdx)

\* the slot Mailbox.store writes when it returns True
Mailbox_store_slot(mbox) ==
    LET freeE == {i \in EepromIdx : is_empty(mbox[i])}
        freeR == {i \in RamIdx : is_empty(mbox[i])}
        \* min(self.ram_slots, key=timestamp): the first slot of least timestamp
        oldest == {i \in RamIdx :
                     /\ \A j \in RamIdx : mbox[i].timestamp <= mbox[j].timestamp}
    IN  IF freeE # {} THEN FirstOf(freeE)
        ELSE IF freeR # {} THEN FirstOf(freeR)
        ELSE FirstOf(oldest)

\* the mailbox after Mailbox.store
Mailbox_store(mbox, dest_hash, pkt_data, unix_time) ==
    IF ~Mailbox_store_ok(mbox, pkt_data) THEN mbox
    ELSE [mbox EXCEPT ![Mailbox_store_slot(mbox)] =
            [dest_hash |-> dest_hash, timestamp |-> unix_time,
             pkt_data |-> pkt_data]]

count_for(mbox, dest_hash) ==
    Cardinality({i \in AllIdx : ~is_empty(mbox[i]) /\ mbox[i].dest_hash = dest_hash})

get_count(mbox) == Cardinality({i \in AllIdx : ~is_empty(mbox[i])})

\* pop_for taking the first stored slot whatever its destination
Mailbox_pop_slot_any_dest(mbox, dest_hash) ==
    LET hit == {i \in AllIdx : ~is_empty(mbox[i])}
    IN  IF hit = {} THEN 0 ELSE FirstOf(hit)

\* the slot Mailbox.pop_for takes (0: it returns None)
Mailbox_pop_slot(mbox, dest_hash) ==
    LET hit == {i \in AllIdx : ~is_empty(mbox[i]) /\ mbox[i].dest_hash = dest_hash}
    IN  IF hit = {} THEN 0 ELSE FirstOf(hit)

\* the mailbox after Mailbox.pop_for
Mailbox_pop_for(mbox, dest_hash) ==
    IF Mailbox_pop_slot(mbox, dest_hash) = 0 THEN mbox
    ELSE [mbox EXCEPT ![Mailbox_pop_slot(mbox, dest_hash)] = MailboxSlot]

\* the bytes Mailbox.pop_for returns (<<>> stands for None: no stored slot is empty)
Mailbox_pop_data(mbox, dest_hash) ==
    IF Mailbox_pop_slot(mbox, dest_hash) = 0 THEN <<>>
    ELSE mbox[Mailbox_pop_slot(mbox, dest_hash)].pkt_data

\* expire_old clearing a slot already when its age reaches the TTL
expire_old_at_ttl(mbox, current_unix_time) ==
    [i \in AllIdx |->
        IF ~is_empty(mbox[i])
           /\ (current_unix_time - mbox[i].timestamp) >= MAILBOX_TTL_SEC
        THEN MailboxSlot ELSE mbox[i]]

expire_old(mbox, current_unix_time) ==
    [i \in AllIdx |->
        IF ~is_empty(mbox[i])
           /\ (current_unix_time - mbox[i].timestamp) > MAILBOX_TTL_SEC
        THEN MailboxSlot ELSE mbox[i]]

Mailbox_clear(mbox) == [i \in AllIdx |-> MailboxSlot]

\* RateLimiter.__init__
RateLimiter(max_count, window_secs) ==
    [window_start |-> 0, window_secs |-> window_secs, max_count |-> max_count,
     count |-> 0, total_blocked |-> 0, total_allowed |-> 0]

\* the return value of RateLimiter.allow
RateLimiter_allows(rl, now_secs) ==
    IF now_secs < rl.window_start + rl.window_secs
    THEN ~(rl.count + 1 > rl.max_count)
    ELSE TRUE

\* the limiter after RateLimiter.allow
RateLimiter_allow(rl, now_secs) ==
    IF now_secs < rl.window_start + rl.window_secs
    THEN IF rl.count + 1 > rl.max_count
         THEN [rl EXCEPT !.count = @ + 1, !.total_blocked = @ + 1]
         ELSE [rl EXCEPT !.count = @ + 1, !.total_allowed = @ + 1]
    ELSE [rl EXCEPT !.window_start = now_secs, !.count = 1,
                    !.total_allowed = @ + 1]

(***************************************************************************)
(* sim/identity.py and sim/advert.py                                       *)
(***************************************************************************)
\* Identity.__init__: the key pair is represented by its public key, whose first
\* byte is the node's fingerprint
Identity(public_key, name) ==
    [public_key |-> public_key, hash |-> public_key[1], name |-> name,
     flags |-> 0, latitude |-> 0, longitude |-> 0]

has_location(identity) == (identity.flags \div MC_FLAG_HAS_LOCATION) % 2 = 1

\* Identity.sign: a 64-byte Ed25519 signature.  No receive path of the node
\* reads or verifies these bytes, so their value is left fixed.
sign(identity, data) == Zeros(MC_SIGNATURE_SIZE)

\* TimeSync.__init__
TimeSync == [base_timestamp |-> 0, base_millis |-> 0, synchronized |-> FALSE,
             pending_timestamp |-> 0, pending_millis |-> 0]

\* get_timestamp counting the elapsed seconds from boot instead of from the base
get_timestamp_from_boot(ts, now) ==
    IF ts.synchronized
    THEN ts.base_timestamp + (now \div 1000)
    ELSE now \div 1000

get_timestamp(ts, now) ==
    IF ts.synchronized
    THEN ts.base_timestamp + ((now - ts.base_millis) \div 1000)
    ELSE now \div 1000

\* unix_time < 1_577_836_800 or unix_time > 4_102_444_800; the upper limit
\* 4102444800 = 2 * 2051222400 is compared by halves
TimestampImplausible(unix_time) ==
    \/ unix_time < 1577836800
    \/ unix_time \div 2 > 2051222400
    \/ (unix_time \div 2 = 2051222400 /\ unix_time % 2 = 1)

\* the return code of TimeSync.sync_from_advert: 0 no change, 1 first sync, 2 resync
sync_result(ts, unix_time, now) ==
    IF TimestampImplausible(unix_time) THEN 0
    ELSE IF ~ts.synchronized THEN 1
    ELSE LET our_time == ts.base_timestamp + ((now - ts.base_millis) \div 1000)
             diff == unix_time - our_time
             pending_adjusted ==
                 ts.pending_timestamp + ((now - ts.pending_millis) \div 1000)
         IN  IF Abs(diff) < MAX_TIMESTAMP_DIFF THEN 0
             ELSE IF /\ ts.pending_timestamp > 0
                     /\ (now - ts.pending_millis) < CONSENSUS_WINDOW_MS
                     /\ Abs(unix_time - pending_adjusted) < MAX_TIMESTAMP_DIFF
             THEN 2
             ELSE 0

\* sync_from_advert accepting a pending candidate of any age
sync_from_advert_any_age(ts, unix_time, now) ==
    IF TimestampImplausible(unix_time) THEN ts
    ELSE IF ~ts.synchronized
    THEN [base_timestamp |-> unix_time, base_millis |-> now, synchronized |-> TRUE,
          pending_timestamp |-> 0, pending_millis |-> 0]
    ELSE LET our_time == ts.base_timestamp + ((now - ts.base_millis) \div 1000)
             diff == unix_time - our_time
             aged == ts.pending_timestamp + ((now - ts.pending_millis) \div 1000)
             avg_time == aged + ((unix_time - aged) \div 2)
         IN  IF Abs(diff) < MAX_TIMESTAMP_DIFF
             THEN [ts EXCEPT !.pending_timestamp = 0, !.pending_millis = 0]
             ELSE IF /\ ts.pending_timestamp > 0
                     /\ Abs(unix_time - aged) < MAX_TIMESTAMP_DIFF
             THEN [ts EXCEPT !.base_timestamp = avg_time, !.base_millis = now,
                             !.pending_timestamp = 0, !.pending_millis = 0]
             ELSE [ts EXCEPT !.pending_timestamp = unix_time,
                             !.pending_millis = now]

\* sync_from_advert keeping the pending candidate on a timestamp in tolerance
sync_from_advert_keep_pending(ts, unix_time, now) ==
    IF TimestampImplausible(unix_time) THEN ts
    ELSE IF ~ts.synchronized
    THEN [base_timestamp |-> unix_time, base_millis |-> now, synchronized |-> TRUE,
          pending_timestamp |-> 0, pending_millis |-> 0]
    ELSE LET our_time == ts.base_timestamp + ((now - ts.base_millis) \div 1000)
             diff == unix_time - our_time
             aged == ts.pending_timestamp + ((now - ts.pending_millis) \div 1000)
             avg_time == aged + ((unix_time - aged) \div 2)
         IN  IF Abs(diff) < MAX_TIMESTAMP_DIFF
             THEN ts
             ELSE IF /\ ts.pending_timestamp > 0
                     /\ (now - ts.pending_millis) < CONSENSUS_WINDOW_MS
                     /\ Abs(unix_time - aged) < MAX_TIMESTAMP_DIFF
             THEN [ts EXCEPT !.base_timestamp = avg_time, !.base_millis = now,
                             !.pending_timestamp = 0, !.pending_millis = 0]
             ELSE [ts EXCEPT !.pending_timestamp = unix_time,
                             !.pending_millis = now]

\* the time state after TimeSync.sync_from_advert
sync_from_advert(ts, unix_time, now) ==
    IF TimestampImplausible(unix_time) THEN ts
    ELSE IF ~ts.synchronized
    THEN [base_timestamp |-> unix_time, base_millis |-> now, synchronized |-> TRUE,
          pending_timestamp |-> 0, pending_millis |-> 0]
    ELSE LET our_time == ts.base_timestamp + ((now - ts.base_millis) \div 1000)
             diff == unix_time - our_time
             pending_adjusted ==
                 ts.pending_timestamp + ((now - ts.pending_millis) \div 1000)
             \* (unix_time + pending_adjusted) // 2, written without the sum
             avg_time == pending_adjusted + ((unix_time - pending_adjusted) \div 2)
         IN  IF Abs(diff) < MAX_TIMESTAMP_DIFF
             THEN [ts EXCEPT !.pending_timestamp = 0, !.pending_millis = 0]
             ELSE IF /\ ts.pending_timestamp > 0
                     /\ (now - ts.pending_millis) < CONSENSUS_WINDOW_MS
                     /\ Abs(unix_time - pending_adjusted) < MAX_TIMESTAMP_DIFF
             THEN [ts EXCEPT !.base_timestamp = avg_time, !.base_millis = now,
                             !.pending_timestamp = 0, !.pending_millis = 0]
             ELSE [ts EXCEPT !.pending_timestamp = unix_time,
                             !.pending_millis = now]

set_time(ts, unix_time, now) ==
    [base_timestamp |-> unix_time, base_millis |-> now, synchronized |-> TRUE,
     pending_timestamp |-> 0, pending_millis |-> 0]

_build_appdata(identity) ==
    <<identity.flags>>
    \o (IF has_location(identity)
        THEN PackLE32(identity.latitude) \o PackLE32(identity.longitude)
        ELSE <<>>)
    \o (IF identity.flags >= MC_FLAG_HAS_NAME
        THEN Slice(identity.name, 0, MC_NODE_NAME_MAX - 1)
        ELSE <<>>)

build_advert(identity, ts, now, route_type) ==
    LET timestamp == get_timestamp(ts, now)
        appdata == _build_appdata(identity)
        sign_data == identity.public_key \o PackLE32(timestamp) \o appdata
    IN  MkPacket(make_header(route_type, MC_PAYLOAD_ADVERT, MC_PAYLOAD_VER_1),
                 <<>>,
                 identity.public_key \o PackLE32(timestamp)
                     \o sign(identity, sign_data) \o appdata)

extract_timestamp(payload) ==
    IF Len(payload) < ADVERT_MIN_SIZE THEN 0
    ELSE UnpackLE32(payload, ADVERT_TIMESTAMP_OFFSET)

HexDigit(d) == IF d < 10 THEN 48 + d ELSE 55 + d

\* f"Node-{h:02X}".encode()
DefaultName(h) == <<78, 111, 100, 101, 45, HexDigit(h \div 16), HexDigit(h % 16)>>

NoAdvert == [none |-> TRUE]

\* parse_advert; the name is kept as its bytes
parse_advert(payload) ==
    IF Len(payload) < ADVERT_MIN_SIZE THEN NoAdvert
    ELSE LET flags == payload[ADVERT_FLAGS_OFFSET + 1]
             node_type == flags % (MC_TYPE_MASK + 1)
             has_valid_flags == flags >= 128 /\ node_type <= 4
             has_loc == has_valid_flags /\ (flags \div MC_FLAG_HAS_LOCATION) % 2 = 1
             pos0 == IF has_valid_flags THEN ADVERT_FLAGS_OFFSET + 1
                     ELSE ADVERT_FLAGS_OFFSET
             read_loc == has_loc /\ Len(payload) >= pos0 + 8
             pos == IF read_loc THEN pos0 + 8 ELSE pos0
             \* has_name is True on both branches: bit 0x80 is set when the flags
             \* are valid, and the fallback sets it
             has_nm == TRUE
             name_len == Min(Len(payload) - pos, MC_NODE_NAME_MAX - 1)
         IN  [pub_key_hash |-> payload[ADVERT_PUBKEY_OFFSET + 1],
              public_key |-> Slice(payload, ADVERT_PUBKEY_OFFSET,
                                   ADVERT_PUBKEY_OFFSET + MC_PUBLIC_KEY_SIZE),
              timestamp |-> UnpackLE32(payload, ADVERT_TIMESTAMP_OFFSET),
              flags |-> IF has_valid_flags THEN flags
                        ELSE MC_TYPE_CHAT_NODE + MC_FLAG_HAS_NAME,
              has_location |-> has_loc,
              latitude |-> IF read_loc THEN Slice(payload, pos0, pos0 + 4) ELSE <<>>,
              longitude |-> IF read_loc THEN Slice(payload, pos0 + 4, pos0 + 8)
                            ELSE <<>>,
              has_name |-> has_nm,
              name |-> IF has_nm /\ Len(payload) > pos
                       THEN Slice(payload, pos, pos + name_len)
                       ELSE DefaultName(payload[ADVERT_PUBKEY_OFFSET + 1]),
              is_repeater |-> has_valid_flags /\ node_type = MC_TYPE_REPEATER,
              is_chat_node |-> IF has_valid_flags
                               THEN node_type = MC_TYPE_CHAT_NODE ELSE TRUE]

(***************************************************************************)
(* sim/node.py: SimNode                                                    *)
(***************************************************************************)
\* SimNode.__init__ followed by SimRepeater.__init__ or SimCompanion.__init__.
\* role is "repeater" or "companion"; a companion never touches the repeater's
\* fields.  log holds the tags logged by the entry point that ran last.
NewNode(role, public_key, name) ==
    [role |-> role,
     identity |-> [Identity(public_key, name) EXCEPT
                     !.flags = (IF role = "repeater" THEN MC_TYPE_REPEATER
                                ELSE MC_TYPE_CHAT_NODE) + MC_FLAG_HAS_NAME],
     time_sync |-> TimeSync,
     seen_nodes |-> <<>>,
     packet_cache |-> PacketIdCache,
     tx_queue |-> <<>>,
     stats |-> Stats,
     log |-> <<>>,
     ping_counter |-> 0,
     advert_interval_ms |-> DEFAULT_ADVERT_INTERVAL_MS,
     last_advert_time |-> 0,
     pending_advert_time |-> 0,
     forward_limiter |-> RateLimiter(RATE_LIMIT_FORWARD_MAX, RATE_LIMIT_FORWARD_SECS),
     neighbours |-> <<>>,
     mailbox |-> Mailbox,
     quiet_start_hour |-> QUIET_DISABLED,
     quiet_end_hour |-> 0,
     quiet_forward_max |-> QUIET_FORWARD_MAX_DEFAULT,
     in_quiet_period |-> FALSE,
     last_quiet_eval |-> 0,
     current_tx_power |-> DEFAULT_TX_POWER,
     max_tx_power |-> DEFAULT_TX_POWER,
     adaptive_tx_enabled |-> FALSE,
     last_adaptive_eval |-> 0]

_log(nd, tag) == [nd EXCEPT !.log = Append(@, tag)]

\* the three lines every sender ends with: packet_cache.add_if_new(pkt_id),
\* tx_queue.add(pkt), stats.tx_count += 1
Originate(nd, pkt) ==
    [nd EXCEPT !.packet_cache = PacketIdCache_add_if_new(@, get_packet_id(pkt)),
               !.tx_queue = TxQueue_add(@, pkt),
               !.stats.tx_count = @ + 1]

send_advert(nd, flood, now) ==
    LET route == IF flood THEN MC_ROUTE_FLOOD ELSE MC_ROUTE_DIRECT
        pkt == build_advert(nd.identity, nd.time_sync, now, route)
        n1 == Originate(nd, pkt)
    IN  _log([n1 EXCEPT !.stats.adv_tx_count = @ + 1, !.last_advert_time = now],
             "A")

\* text of a directed ping or trace: f"#{ping_counter} {name}"
PingText(counter, name) == <<35>> \o DecStr(counter) \o <<32>> \o name

\* packet of send_directed_ping (marker "DP"), send_directed_trace ("DT"),
\* _send_pong ("PO") and _send_trace_response ("TR")
PlainPacket(my_hash, target_hash, m1, m2, text) ==
    MkPacket(make_header(MC_ROUTE_FLOOD, MC_PAYLOAD_PLAIN, MC_PAYLOAD_VER_1),
             <<my_hash>>,
             <<target_hash, my_hash, m1, m2>> \o text)

send_directed_ping(nd, target_hash) ==
    LET n1 == [nd EXCEPT !.ping_counter = @ + 1]
        pkt == PlainPacket(nd.identity.hash, target_hash, 68, 80,
                           PingText(n1.ping_counter, nd.identity.name))
    IN  Originate(_log(n1, "P ->"), pkt)

send_directed_trace(nd, target_hash) ==
    LET n1 == [nd EXCEPT !.ping_counter = @ + 1]
        pkt == PlainPacket(nd.identity.hash, target_hash, 68, 84,
                           PingText(n1.ping_counter, nd.identity.name))
    IN  Originate(_log(n1, "P ~>"), pkt)

\* _send_pong with the dest and src bytes of the reply exchanged
_send_pong_to_self(nd, target_hash, rx_pkt) ==
    LET text == nd.identity.name \o <<32>> \o DecStr(rx_pkt.rssi)
        pkt == PlainPacket(target_hash, nd.identity.hash, 80, 79, text)
    IN  Originate(_log(nd, "P PONG ->"), pkt)

_send_pong(nd, target_hash, rx_pkt) ==
    LET text == nd.identity.name \o <<32>> \o DecStr(rx_pkt.rssi)
        pkt == PlainPacket(nd.identity.hash, target_hash, 80, 79, text)
    IN  Originate(_log(nd, "P PONG ->"), pkt)

_send_trace_response(nd, target_hash, rx_pkt) ==
    LET text == nd.identity.name \o <<32>> \o DecStr(rx_pkt.rssi)
                    \o <<32>> \o DecStr(Len(rx_pkt.path))
        pkt == PlainPacket(nd.identity.hash, target_hash, 84, 82, text)
    IN  Originate(_log(nd, "P TR ->"), pkt)

\* _process_advert, the time-sync part
AdvertSync(nd, advert_time, now) ==
    IF advert_time > 0
    THEN IF sync_result(nd.time_sync, advert_time, now) = 1
         THEN [_log(nd, "OK Time sync") EXCEPT
                  !.time_sync = sync_from_advert(@, advert_time, now),
                  !.pending_advert_time = now + ADVERT_AFTER_SYNC_MS]
         ELSE IF sync_result(nd.time_sync, advert_time, now) = 2
         THEN [_log(nd, "OK Time resync") EXCEPT
                  !.time_sync = sync_from_advert(@, advert_time, now),
                  !.pending_advert_time = now + ADVERT_AFTER_SYNC_MS]
         ELSE [nd EXCEPT !.time_sync = sync_from_advert(@, advert_time, now)]
    ELSE nd

\* _process_advert, the sighting part
AdvertSighting(nd, pkt, info, now) ==
    IF info = NoAdvert THEN nd
    ELSE IF SeenIndex(nd.seen_nodes, info.pub_key_hash) = 0
    THEN _log([_log(nd, "N") EXCEPT
                  !.seen_nodes = SeenNodesTracker_update(
                      @, info.pub_key_hash, pkt.rssi, pkt.snr, info.name, now)],
              "N New node")
    ELSE [_log(nd, "N") EXCEPT
             !.seen_nodes = SeenNodesTracker_update(
                 @, info.pub_key_hash, pkt.rssi, pkt.snr, info.name, now)]

_process_advert(nd, pkt, now) ==
    AdvertSighting(
        AdvertSync([nd EXCEPT !.stats.adv_rx_count = @ + 1],
                   extract_timestamp(pkt.payload), now),
        pkt, parse_advert(pkt.payload), now)

\* _process_plain answering pings and traces for any dest byte
_process_plain_any_dest(nd, pkt) ==
    IF Len(pkt.payload) < 4 THEN nd
    ELSE LET dest_hash == pkt.payload[1]
             src_hash == pkt.payload[2]
             marker == <<pkt.payload[3], pkt.payload[4]>>
             my_hash == nd.identity.hash
         IN  IF marker = <<68, 80>>
             THEN _send_pong(_log(nd, "P from"), src_hash, pkt)
             ELSE IF marker = <<80, 79>> /\ dest_hash = my_hash
             THEN _log(nd, "P PONG")
             ELSE IF marker = <<68, 84>>
             THEN _send_trace_response(_log(nd, "P TRACE from"), src_hash, pkt)
             ELSE IF marker = <<84, 82>> /\ dest_hash = my_hash
             THEN _log(nd, "P TRACE")
             ELSE nd

_process_plain(nd, pkt) ==
    IF Len(pkt.payload) < 4 THEN nd
    ELSE LET dest_hash == pkt.payload[1]
             src_hash == pkt.payload[2]
             marker == <<pkt.payload[3], pkt.payload[4]>>
             my_hash == nd.identity.hash
         IN  IF marker = <<68, 80>> /\ dest_hash = my_hash
             THEN _send_pong(_log(nd, "P from"), src_hash, pkt)
             ELSE IF marker = <<80, 79>> /\ dest_hash = my_hash
             THEN _log(nd, "P PONG")
             ELSE IF marker = <<68, 84>> /\ dest_hash = my_hash
             THEN _send_trace_response(_log(nd, "P TRACE from"), src_hash, pkt)
             ELSE IF marker = <<84, 82>> /\ dest_hash = my_hash
             THEN _log(nd, "P TRACE")
             ELSE nd

\* the first three lines of on_rx_packet: the reception metadata
StampRx(pkt, rssi, snr, now) ==
    [pkt EXCEPT !.rssi = rssi, !.snr = snr, !.rx_time = now]

\* on_rx_packet, the dispatch on the payload type
Dispatch(nd, pkt, now) ==
    IF get_payload_type(pkt.header) = MC_PAYLOAD_ADVERT
    THEN _process_advert(nd, pkt, now)
    ELSE IF get_payload_type(pkt.header) = MC_PAYLOAD_PLAIN
    THEN _process_plain(nd, pkt)
    ELSE nd

\* on_rx_packet, "Track nodes from path": the first hop
TrackFirstHop(nd, pkt, rssi, snr, now) ==
    IF Len(pkt.path) > 0
    THEN [nd EXCEPT !.seen_nodes = SeenNodesTracker_update(
                        @, pkt.path[1], rssi, snr, <<>>, now)]
    ELSE nd

\* on_rx_packet, "Track nodes from path": the last hop
TrackLastHop(nd, pkt, rssi, snr, now) ==
    IF Len(pkt.path) > 1 /\ Last(pkt.path) # pkt.path[1]
    THEN [nd EXCEPT !.seen_nodes = SeenNodesTracker_update(
                        @, Last(pkt.path), rssi, snr, <<>>, now)]
    ELSE nd

\* SimNode.on_rx_packet; pkt already carries the reception metadata
SimNode_on_rx_packet(nd, pkt, rssi, snr, now) ==
    TrackLastHop(
        TrackFirstHop(
            Dispatch([nd EXCEPT !.stats.rx_count = @ + 1], pkt, now),
            pkt, rssi, snr, now),
        pkt, rssi, snr, now)

\* SimNode.tick, "Check pending advert after time sync"
PendingAdvert(nd, now) ==
    IF nd.pending_advert_time > 0 /\ now >= nd.pending_advert_time
    THEN send_advert([nd EXCEPT !.pending_advert_time = 0], TRUE, now)
    ELSE nd

\* Beacon that waits until more than the advert interval has passed
Beacon_after_interval(nd, now) ==
    IF nd.time_sync.synchronized
       /\ (now - nd.last_advert_time) > nd.advert_interval_ms
    THEN send_advert(nd, TRUE, now)
    ELSE nd

\* SimNode.tick, "Regular beacon"
Beacon(nd, now) ==
    IF nd.time_sync.synchronized
       /\ (now - nd.last_advert_time) >= nd.advert_interval_ms
    THEN send_advert(nd, TRUE, now)
    ELSE nd

\* SimNode.tick before the queue is drained: the pending and the periodic advert
SimNode_tick_adverts(nd, now) == Beacon(PendingAdvert(nd, now), now)

\* the packets SimNode.tick returns: the whole queue, in queue order
SimNode_tick_out(nd, now) == SimNode_tick_adverts(nd, now).tx_queue

\* the node after SimNode.tick
SimNode_tick(nd, now) == [SimNode_tick_adverts(nd, now) EXCEPT !.tx_queue = <<>>]

(***************************************************************************)
(* sim/node.py: SimRepeater                                                *)
(***************************************************************************)
NbrIndex(neighbours, hash_val) ==
    IF \E i \in 1..Len(neighbours) : neighbours[i].hash = hash_val
    THEN CHOOSE i \in 1..Len(neighbours) :
            /\ neighbours[i].hash = hash_val
            /\ \A j \in 1..(i - 1) : neighbours[j].hash # hash_val
    ELSE 0

\* _update_neighbour judging the SNR of the first sample as well
_update_neighbour_first_by_snr(neighbours, hash_val, rssi, snr, now) ==
    LET i == NbrIndex(neighbours, hash_val)
    IN  IF i # 0
        THEN [neighbours EXCEPT ![i] =
                [@ EXCEPT !.rssi = rssi, !.snr = snr, !.last_seen = now,
                          !.cb_state =
                              IF snr < CB_SNR_THRESHOLD
                              THEN (IF @ = CB_STATE_CLOSED THEN CB_STATE_OPEN ELSE @)
                              ELSE (IF @ # CB_STATE_CLOSED THEN CB_STATE_CLOSED
                                    ELSE @)]]
        ELSE Append(neighbours,
                    [hash |-> hash_val, rssi |-> rssi, snr |-> snr,
                     last_seen |-> now,
                     cb_state |-> IF snr < CB_SNR_THRESHOLD THEN CB_STATE_OPEN
                                  ELSE CB_STATE_CLOSED])

_update_neighbour(neighbours, hash_val, rssi, snr, now) ==
    LET i == NbrIndex(neighbours, hash_val)
    IN  IF i # 0
        THEN [neighbours EXCEPT ![i] =
                [@ EXCEPT !.rssi = rssi, !.snr = snr, !.last_seen = now,
                          !.cb_state =
                              IF snr < CB_SNR_THRESHOLD
                              THEN (IF @ = CB_STATE_CLOSED THEN CB_STATE_OPEN ELSE @)
                              ELSE (IF @ # CB_STATE_CLOSED THEN CB_STATE_CLOSED
                                    ELSE @)]]
        ELSE Append(neighbours,
                    [hash |-> hash_val, rssi |-> rssi, snr |-> snr,
                     last_seen |-> now, cb_state |-> CB_STATE_CLOSED])

\* _is_circuit_open taking a half-open breaker for an open one
_is_circuit_open_or_half(neighbours, hash_val) ==
    /\ NbrIndex(neighbours, hash_val) # 0
    /\ neighbours[NbrIndex(neighbours, hash_val)].cb_state # CB_STATE_CLOSED

_is_circuit_open(neighbours, hash_val) ==
    /\ NbrIndex(neighbours, hash_val) # 0
    /\ neighbours[NbrIndex(neighbours, hash_val)].cb_state = CB_STATE_OPEN

\* _tick_circuit_breakers giving up the open state at the timeout itself
_tick_circuit_breakers_at_timeout(neighbours, now) ==
    [i \in 1..Len(neighbours) |->
        IF neighbours[i].cb_state = CB_STATE_OPEN
           /\ (now - neighbours[i].last_seen) >= CB_TIMEOUT_MS
        THEN [neighbours[i] EXCEPT !.cb_state = CB_STATE_HALF_OPEN]
        ELSE neighbours[i]]

_tick_circuit_breakers(neighbours, now) ==
    [i \in 1..Len(neighbours) |->
        IF neighbours[i].cb_state = CB_STATE_OPEN
           /\ (now - neighbours[i].last_seen) > CB_TIMEOUT_MS
        THEN [neighbours[i] EXCEPT !.cb_state = CB_STATE_HALF_OPEN]
        ELSE neighbours[i]]

\* PassesBeforeDedup without the next-hop check of direct frames
PassesAnyDirect(nd, pkt) ==
    LET pt == get_payload_type(pkt.header)
    IN  /\ is_flood(pkt) \/ is_direct(pkt)
        /\ ~(pkt.rssi < MC_MIN_RSSI_FORWARD)
        /\ ~(/\ pt \in {MC_PAYLOAD_ANON_REQ, MC_PAYLOAD_REQUEST, MC_PAYLOAD_RESPONSE}
             /\ Len(pkt.payload) > 0
             /\ pkt.payload[1] = nd.identity.hash)

\* PassesBeforeDedup that also rejects a frame at exactly MC_MIN_RSSI_FORWARD
PassesAboveMinRssi(nd, pkt) ==
    LET pt == get_payload_type(pkt.header)
    IN  /\ is_flood(pkt) \/ is_direct(pkt)
        /\ ~(pkt.rssi <= MC_MIN_RSSI_FORWARD)
        /\ is_direct(pkt) =>
              (Len(pkt.path) # 0 /\ pkt.path[1] = nd.identity.hash)
        /\ ~(/\ pt \in {MC_PAYLOAD_ANON_REQ, MC_PAYLOAD_REQUEST, MC_PAYLOAD_RESPONSE}
             /\ Len(pkt.payload) > 0
             /\ pkt.payload[1] = nd.identity.hash)

\* the checks of _should_forward that precede the dedup cache
PassesBeforeDedup(nd, pkt) ==
    LET pt == get_payload_type(pkt.header)
    IN  /\ is_flood(pkt) \/ is_direct(pkt)
        /\ ~(pkt.rssi < MC_MIN_RSSI_FORWARD)
        /\ is_direct(pkt) =>
              (Len(pkt.path) # 0 /\ pkt.path[1] = nd.identity.hash)
        /\ ~(/\ pt \in {MC_PAYLOAD_ANON_REQ, MC_PAYLOAD_REQUEST, MC_PAYLOAD_RESPONSE}
             /\ Len(pkt.payload) > 0
             /\ pkt.payload[1] = nd.identity.hash)

\* _should_forward without the loop check of flood frames
ShouldForwardNoLoopCheck(nd, pkt) ==
    /\ PassesBeforeDedup(nd, pkt)
    /\ PacketIdCache_is_new(nd.packet_cache, get_packet_id(pkt))
    /\ is_flood(pkt) => ~(Len(pkt.path) >= MC_MAX_PATH_SIZE - 1)

\* _should_forward whose loop check looks at the first hop of the path only
_should_forward_first_hop_only(nd, pkt) ==
    /\ PassesBeforeDedup(nd, pkt)
    /\ PacketIdCache_is_new(nd.packet_cache, get_packet_id(pkt))
    /\ is_flood(pkt) =>
          /\ ~(Len(pkt.path) > 0 /\ pkt.path[1] = nd.identity.hash)
          /\ ~(Len(pkt.path) >= MC_MAX_PATH_SIZE - 1)

\* the return value of _should_forward
_should_forward(nd, pkt) ==
    /\ PassesBeforeDedup(nd, pkt)
    /\ PacketIdCache_is_new(nd.packet_cache, get_packet_id(pkt))
    /\ is_flood(pkt) =>
          /\ ~Contains(pkt.path, nd.identity.hash)
          /\ ~(Len(pkt.path) >= MC_MAX_PATH_SIZE - 1)

\* the dedup cache of a _should_forward that runs the loop and path-length
\* checks of flood frames before the dedup step
ShouldForwardCache_after_loop_check(nd, pkt) ==
    IF /\ PassesBeforeDedup(nd, pkt)
       /\ is_flood(pkt) =>
             /\ ~Contains(pkt.path, nd.identity.hash)
             /\ ~(Len(pkt.path) >= MC_MAX_PATH_SIZE - 1)
    THEN PacketIdCache_add_if_new(nd.packet_cache, get_packet_id(pkt))
    ELSE nd.packet_cache

\* the dedup cache after _should_forward
ShouldForwardCache(nd, pkt) ==
    IF PassesBeforeDedup(nd, pkt)
    THEN PacketIdCache_add_if_new(nd.packet_cache, get_packet_id(pkt))
    ELSE nd.packet_cache

\* RewritePath that drops the last hop of a direct frame instead of the first
RewritePathDropLast(nd, pkt) ==
    IF is_direct(pkt) THEN Slice(pkt.path, 0, Len(pkt.path) - 1)
    ELSE Append(pkt.path, nd.identity.hash)

\* the path of the forwarded copy: peel the head (direct) or append our hash (flood)
RewritePath(nd, pkt) ==
    IF is_direct(pkt) THEN Slice(pkt.path, 1, Len(pkt.path))
    ELSE Append(pkt.path, nd.identity.hash)

\* on_rx_packet, "Track neighbours from 0-hop ADVERTs"
TrackNeighbour(nd, pkt, rssi, snr, now) ==
    LET info == parse_advert(pkt.payload)
    IN  IF /\ get_payload_type(pkt.header) = MC_PAYLOAD_ADVERT
           /\ Len(pkt.path) = 0
           /\ info # NoAdvert
           /\ info.is_repeater
        THEN [nd EXCEPT !.neighbours =
                 _update_neighbour(@, info.pub_key_hash, rssi, snr, now)]
        ELSE nd

\* one round of the delivery loop, on the mailbox after pop_for.  The packet
\* handed to the queue is fwd_pkt, the MCPacket() built one line before:
\* MCPacket.deserialize is a static method that returns the parsed packet and
\* leaves fwd_pkt as constructed.
DeliverOne(nd, data) ==
    IF deserialize(data) # NoPacket
    THEN _log([nd EXCEPT !.tx_queue = TxQueue_add(@, MCPacket)], "I Mbox fwd")
    ELSE nd

RECURSIVE DeliverLoop(_, _)
\* the while loop of on_rx_packet that empties the mailbox for one peer
DeliverLoop(nd, hash_val) ==
    IF Mailbox_pop_slot(nd.mailbox, hash_val) = 0 THEN nd
    ELSE DeliverLoop(
            DeliverOne([nd EXCEPT !.mailbox = Mailbox_pop_for(@, hash_val)],
                       Mailbox_pop_data(nd.mailbox, hash_val)),
            hash_val)

\* on_rx_packet, "deliver pending messages when node comes back"
MailboxDeliver(nd, pkt) ==
    LET info == parse_advert(pkt.payload)
    IN  IF /\ get_payload_type(pkt.header) = MC_PAYLOAD_ADVERT
           /\ info # NoAdvert
           /\ count_for(nd.mailbox, info.pub_key_hash) > 0
        THEN DeliverLoop(nd, info.pub_key_hash)
        ELSE nd

\* StoreCalled without the age test of the offline heuristic
StoreCalledNoAge(nd, pkt, now) ==
    /\ Len(pkt.payload) >= 2
    /\ get_payload_type(pkt.header) \in
          {MC_PAYLOAD_REQUEST, MC_PAYLOAD_RESPONSE, MC_PAYLOAD_PLAIN,
           MC_PAYLOAD_ANON_REQ}
    /\ pkt.payload[1] # nd.identity.hash
    /\ pkt.payload[1] # 0
    /\ LET sn == get_by_hash(nd.seen_nodes, pkt.payload[1])
       IN  sn # NoSeen /\ sn.pkt_count >= 2
    /\ nd.time_sync.synchronized

\* on_rx_packet: the conditions under which mailbox.store is called
StoreCalled(nd, pkt, now) ==
    /\ Len(pkt.payload) >= 2
    /\ get_payload_type(pkt.header) \in
          {MC_PAYLOAD_REQUEST, MC_PAYLOAD_RESPONSE, MC_PAYLOAD_PLAIN,
           MC_PAYLOAD_ANON_REQ}
    /\ pkt.payload[1] # nd.identity.hash
    /\ pkt.payload[1] # 0
    /\ LET sn == get_by_hash(nd.seen_nodes, pkt.payload[1])
       IN  /\ sn # NoSeen
           /\ sn.pkt_count >= 2
           /\ (now - sn.last_seen) > HEALTH_OFFLINE_MS
    /\ nd.time_sync.synchronized

\* on_rx_packet, "save packets for offline nodes"
MailboxStore(nd, pkt, now) ==
    IF StoreCalled(nd, pkt, now)
    THEN IF Mailbox_store_ok(nd.mailbox, serialize(pkt))
         THEN _log([nd EXCEPT !.mailbox =
                       Mailbox_store(@, pkt.payload[1], serialize(pkt),
                                     get_timestamp(nd.time_sync, now))],
                   "I Mbox store")
         ELSE [nd EXCEPT !.mailbox =
                  Mailbox_store(@, pkt.payload[1], serialize(pkt),
                                get_timestamp(nd.time_sync, now))]
    ELSE nd

\* "Forwarding logic" after the rate limiter has let the frame pass: the
\* circuit-breaker check, the path rewrite and the enqueue
ForwardCopy(nd, pkt) ==
    IF /\ is_direct(pkt)
       /\ Len(pkt.path) >= 2
       /\ _is_circuit_open(nd.neighbours, pkt.path[2])
    THEN _log(nd, "F CB")
    ELSE _log(_log([nd EXCEPT
                       !.tx_queue = TxQueue_add(@, [pkt EXCEPT !.path =
                                                       RewritePath(nd, pkt)]),
                       !.stats.fwd_count = @ + 1],
                   IF is_direct(pkt) THEN "F Direct" ELSE "F Flood"),
              "F Q")

\* "Forwarding logic" after _should_forward returned True: forward_limiter.allow
ForwardLimited(nd, pkt, now_secs) ==
    IF ~RateLimiter_allows(nd.forward_limiter, now_secs)
    THEN _log([nd EXCEPT !.forward_limiter = RateLimiter_allow(@, now_secs)],
              "F Rate lim")
    ELSE ForwardCopy([nd EXCEPT !.forward_limiter = RateLimiter_allow(@, now_secs)],
                     pkt)

\* on_rx_packet, "Forwarding logic"
Forward(nd, pkt, now) ==
    IF ~_should_forward(nd, pkt)
    THEN [nd EXCEPT !.packet_cache = ShouldForwardCache(nd, pkt)]
    ELSE ForwardLimited([nd EXCEPT !.packet_cache = ShouldForwardCache(nd, pkt)],
                        pkt, now \div 1000)

\* SimRepeater.on_rx_packet; pkt already carries the reception metadata
SimRepeater_rx(nd, pkt, rssi, snr, now) ==
    Forward(
        MailboxStore(
            MailboxDeliver(
                TrackNeighbour(SimNode_on_rx_packet(nd, pkt, rssi, snr, now),
                               pkt, rssi, snr, now),
                pkt),
            pkt, now),
        pkt, now)

\* SimRepeater.on_rx_packet, from the frame as received
SimRepeater_on_rx_packet(nd, rx, rssi, snr, now) ==
    SimRepeater_rx([nd EXCEPT !.log = <<>>], StampRx(rx, rssi, snr, now),
                   rssi, snr, now)

\* a companion that runs the repeater's handler
CompanionAsRepeater(nd, rx, rssi, snr, now) ==
    SimRepeater_on_rx_packet(nd, rx, rssi, snr, now)

\* SimCompanion.on_rx_packet, from the frame as received
SimCompanion_on_rx_packet(nd, rx, rssi, snr, now) ==
    SimNode_on_rx_packet([nd EXCEPT !.log = <<>>], StampRx(rx, rssi, snr, now),
                         rssi, snr, now)

on_rx_packet(nd, rx, rssi, snr, now) ==
    IF nd.role = "repeater" THEN SimRepeater_on_rx_packet(nd, rx, rssi, snr, now)
    ELSE SimCompanion_on_rx_packet(nd, rx, rssi, snr, now)

set_quiet_hours(nd, start, end, max_fwd) ==
    [nd EXCEPT !.quiet_start_hour = start, !.quiet_end_hour = end,
               !.quiet_forward_max = max_fwd]

disable_quiet_hours(nd) ==
    [nd EXCEPT !.quiet_start_hour = QUIET_DISABLED, !.quiet_end_hour = 0,
               !.in_quiet_period = FALSE,
               !.forward_limiter.max_count = RATE_LIMIT_FORWARD_MAX]

_evaluate_quiet_hours(nd, current_hour) ==
    IF nd.quiet_start_hour = QUIET_DISABLED THEN nd
    ELSE LET should_be_quiet ==
                 IF nd.quiet_start_hour <= nd.quiet_end_hour
                 THEN current_hour >= nd.quiet_start_hour
                      /\ current_hour < nd.quiet_end_hour
                 ELSE current_hour >= nd.quiet_start_hour
                      \/ current_hour < nd.quiet_end_hour
         IN  IF should_be_quiet # nd.in_quiet_period
             THEN [nd EXCEPT !.in_quiet_period = should_be_quiet,
                             !.forward_limiter.max_count =
                                 IF should_be_quiet THEN nd.quiet_forward_max
                                 ELSE RATE_LIMIT_FORWARD_MAX]
             ELSE nd

RECURSIVE SumSnr(_, _)
SumSnr(neighbours, i) ==
    IF i > Len(neighbours) THEN 0 ELSE neighbours[i].snr + SumSnr(neighbours, i + 1)

\* evaluate_adaptive_tx_power without the floor at ADAPTIVE_TX_MIN_POWER
evaluate_adaptive_tx_power_no_floor(nd) ==
    IF ~nd.adaptive_tx_enabled \/ Len(nd.neighbours) = 0 THEN nd
    ELSE LET avg_snr == SumSnr(nd.neighbours, 1) \div Len(nd.neighbours)
         IN  IF avg_snr > ADAPTIVE_TX_HIGH_SNR
             THEN [nd EXCEPT !.current_tx_power = @ - ADAPTIVE_TX_STEP]
             ELSE IF avg_snr < ADAPTIVE_TX_LOW_SNR
             THEN [nd EXCEPT !.current_tx_power =
                      IF @ + ADAPTIVE_TX_STEP > nd.max_tx_power
                      THEN nd.max_tx_power ELSE @ + ADAPTIVE_TX_STEP]
             ELSE nd

\* the node after evaluate_adaptive_tx_power
evaluate_adaptive_tx_power(nd) ==
    IF ~nd.adaptive_tx_enabled \/ Len(nd.neighbours) = 0 THEN nd
    ELSE LET avg_snr == SumSnr(nd.neighbours, 1) \div Len(nd.neighbours)
         IN  IF avg_snr > ADAPTIVE_TX_HIGH_SNR
             THEN [nd EXCEPT !.current_tx_power =
                      IF @ - ADAPTIVE_TX_STEP < ADAPTIVE_TX_MIN_POWER
                      THEN ADAPTIVE_TX_MIN_POWER ELSE @ - ADAPTIVE_TX_STEP]
             ELSE IF avg_snr < ADAPTIVE_TX_LOW_SNR
             THEN [nd EXCEPT !.current_tx_power =
                      IF @ + ADAPTIVE_TX_STEP > nd.max_tx_power
                      THEN nd.max_tx_power ELSE @ + ADAPTIVE_TX_STEP]
             ELSE nd

\* SimRepeater.tick, "Quiet hours"
PeriodicQuiet(nd, now) ==
    IF nd.quiet_start_hour # QUIET_DISABLED /\ nd.time_sync.synchronized
    THEN _evaluate_quiet_hours(
            nd, (get_timestamp(nd.time_sync, now) % 86400) \div 3600)
    ELSE nd

\* SimRepeater.tick, "Adaptive TX power"
PeriodicTxPower(nd) ==
    IF evaluate_adaptive_tx_power(nd).current_tx_power # nd.current_tx_power
    THEN _log(evaluate_adaptive_tx_power(nd), "I TxP")
    ELSE nd

\* the periodic maintenance at the head of SimRepeater.tick
SimRepeater_periodic(nd, now) ==
    IF now - nd.last_quiet_eval >= QUIET_EVAL_PERIOD_MS
    THEN PeriodicTxPower(
            [PeriodicQuiet([nd EXCEPT !.last_quiet_eval = now], now) EXCEPT
                !.neighbours = _tick_circuit_breakers(@, now)])
    ELSE nd

\* the packets tick returns, for either role
tick_out(nd, now) ==
    IF nd.role = "repeater"
    THEN SimNode_tick_out(SimRepeater_periodic([nd EXCEPT !.log = <<>>], now), now)
    ELSE SimNode_tick_out([nd EXCEPT !.log = <<>>], now)

\* the node after tick, for either role (SimRepeater.tick, SimNode.tick)
tick(nd, now) ==
    IF nd.role = "repeater"
    THEN SimNode_tick(SimRepeater_periodic([nd EXCEPT !.log = <<>>], now), now)
    ELSE SimNode_tick([nd EXCEPT !.log = <<>>], now)

(***************************************************************************)
(* The mesh: nodes, the clock, the radio (sim/runner.py, sim/radio_env.py)  *)
(***************************************************************************)
\* fingerprints (first public-key bytes) of the nodes and of the outside peers
Hash == [R1 |-> 17, R2 |-> 34, C1 |-> 51, X |-> 170, S |-> 187, D |-> 221]

PublicKey(h) == [i \in 1..MC_PUBLIC_KEY_SIZE |-> IF i = 1 THEN h ELSE 0]

\* "R1", "R2", "C1", "X" as bytes
NameOf == [R1 |-> <<82, 49>>, R2 |-> <<82, 50>>, C1 |-> <<67, 49>>, X |-> <<88>>]

Repeater(id) == NewNode("repeater", PublicKey(Hash[id]), NameOf[id])

Companion(id) == NewNode("companion", PublicKey(Hash[id]), NameOf[id])

\* LinkConfig defaults of radio_env.py
LINK_RSSI == 0 - 70
LINK_SNR == 32

\* the ids a handler put into the dedup ring, oldest first
RingNew(pre, post) ==
    LET size == Len(pre.ids)
        k == (post.pos - pre.pos + size) % size
    IN  [i \in 1..k |-> post.ids[((pre.pos + i - 1) % size) + 1]]

Record(n) ==
    [hist EXCEPT ![n] = @ \o RingNew(node[n].packet_cache, node'[n].packet_cache)]

NoOut == <<>>

\* no entry point has run since the clock last moved
NoLast == [op |-> "none"]

\* a frame from outside the modelled nodes reaches node n: on_rx_packet
Rx(n, f, rssi, snr) ==
    /\ node' = [node EXCEPT ![n] = on_rx_packet(@, f, rssi, snr, clock)]
    /\ hist' = Record(n)
    /\ last' = [op |-> "rx", n |-> n, pkt |-> f, rssi |-> rssi, snr |-> snr,
                now |-> clock, pre |-> node[n], out |-> NoOut]
    /\ UNCHANGED <<clock, air>>

\* RadioEnvironment.tick: an in-flight frame is delivered to its target
Deliver(e) ==
    /\ e \in air
    /\ air' = air \ {e}
    /\ node' = [node EXCEPT ![e.dst] =
                   on_rx_packet(@, MkPacket(e.pkt.header, e.pkt.path, e.pkt.payload),
                                LINK_RSSI, LINK_SNR, clock)]
    /\ hist' = Record(e.dst)
    /\ last' = [op |-> "rx", n |-> e.dst,
                pkt |-> MkPacket(e.pkt.header, e.pkt.path, e.pkt.payload),
                rssi |-> LINK_RSSI, snr |-> LINK_SNR,
                now |-> clock, pre |-> node[e.dst], out |-> NoOut]
    /\ UNCHANGED clock

\* RadioEnvironment.transmit of the packets a tick returned, to every linked node
Transmit(n, links, out) ==
    /\ air' = air \cup {[src |-> n, dst |-> m, pkt |-> Wire(out[i])] :
                           m \in links, i \in 1..Len(out)}
    /\ last' = [op |-> "tick", n |-> n, pkt |-> MCPacket, rssi |-> 0, snr |-> 0,
                now |-> clock, pre |-> node[n], out |-> out]

\* SimRunner.run_step for one node: tick, then transmit what it returned
Tick(n, links) ==
    /\ node' = [node EXCEPT ![n] = tick(@, clock)]
    /\ hist' = Record(n)
    /\ Transmit(n, links, tick_out(node[n], clock))
    /\ UNCHANGED clock

\* process_command "ping <h>", "trace <h>" and "advert" (SimRepeater._cmd_ping
\* and the like-named branches of SimCompanion.process_command)
Cmd(n, c, h) ==
    /\ node' = [node EXCEPT ![n] =
                   IF c = "ping" THEN send_directed_ping([@ EXCEPT !.log = <<>>], h)
                   ELSE IF c = "trace"
                   THEN send_directed_trace([@ EXCEPT !.log = <<>>], h)
                   ELSE send_advert([@ EXCEPT !.log = <<>>], TRUE, clock)]
    /\ hist' = Record(n)
    /\ last' = [op |-> "cmd", n |-> n, pkt |-> MCPacket, rssi |-> 0, snr |-> 0,
                now |-> clock, pre |-> node[n], out |-> NoOut]
    /\ UNCHANGED <<clock, air>>

\* VirtualClock.advance
Advance(ms) ==
    /\ clock' = clock + ms
    /\ last' = NoLast
    /\ UNCHANGED <<node, air, hist>>

\* an advert as a peer with the given identity byte, node type and clock sends it
AdvertFrom(id, node_type, unix_time, route) ==
    build_advert([Identity(PublicKey(Hash[id]), NameOf[id]) EXCEPT
                     !.flags = node_type + MC_FLAG_HAS_NAME],
                 set_time(TimeSync, unix_time, 0), 0, route)

\* 2023-11-14 22:13:20 UTC, a plausible wall-clock time for peers
T0 == 1700000000

\* the clock advances the runner has made, the clock moving in steps of
\* ADVERT_AFTER_SYNC_MS and DEFAULT_ADVERT_INTERVAL_MS
Advances ==
    (clock \div DEFAULT_ADVERT_INTERVAL_MS)
    + ((clock % DEFAULT_ADVERT_INTERVAL_MS) \div ADVERT_AFTER_SYNC_MS)

(***************************************************************************)
(* Spec: two repeaters R1 - R2 in radio range of each other, frames from    *)
(* outside peers S and D reaching either of them                           *)
(***************************************************************************)
\* receptions (outside frames and deliveries) in one behaviour
MaxRx == 3

ReqPayload == <<Hash.D, Hash.S, 1>>

\* a directed ping from S to D: [dest][src]"DP"
PingPayload == <<Hash.D, Hash.S, 68, 80>>

DirectChain ==
    MkPacket(make_header(MC_ROUTE_DIRECT, MC_PAYLOAD_REQUEST, MC_PAYLOAD_VER_1),
             <<Hash.R1, Hash.R2, Hash.D>>, ReqPayload)

DirectOther ==
    MkPacket(make_header(MC_ROUTE_DIRECT, MC_PAYLOAD_REQUEST, MC_PAYLOAD_VER_1),
             <<Hash.D, Hash.R1>>, ReqPayload)

DirectZeroHop ==
    MkPacket(make_header(MC_ROUTE_TRANSPORT_DIRECT, MC_PAYLOAD_ACK, MC_PAYLOAD_VER_1),
             <<>>, ReqPayload)

FloodPing ==
    MkPacket(make_header(MC_ROUTE_FLOOD, MC_PAYLOAD_PLAIN, MC_PAYLOAD_VER_1),
             <<Hash.S>>, PingPayload)

FloodLoop ==
    MkPacket(make_header(MC_ROUTE_FLOOD, MC_PAYLOAD_PLAIN, MC_PAYLOAD_VER_1),
             <<Hash.S, Hash.R1>>, PingPayload)

TFlood ==
    MkPacket(make_header(MC_ROUTE_TRANSPORT_FLOOD, MC_PAYLOAD_GROUP_TEXT,
                         MC_PAYLOAD_VER_1),
             <<Hash.R2>>, <<1>>)

\* the frames from outside, each with the RSSI it is heard at
FwdInputs ==
    {[f |-> f, rssi |-> MC_MIN_RSSI_FORWARD] :
        f \in {DirectChain, DirectOther, DirectZeroHop, FloodPing, FloodLoop, TFlood}}
    \cup {[f |-> FloodPing, rssi |-> MC_MIN_RSSI_FORWARD - 1]}

RECURSIVE SumRx(_)
SumRx(S) ==
    IF S = {} THEN 0
    ELSE LET n == CHOOSE m \in S : TRUE
         IN  node[n].stats.rx_count + SumRx(S \ {n})

RxTotal == SumRx(DOMAIN node)

\* RadioEnvironment.set_link("R1", "R2")
Links == [R1 |-> {"R2"}, R2 |-> {"R1"}]

Init ==
    /\ clock = 0
    /\ node = [n \in {"R1", "R2"} |-> Repeater(n)]
    /\ air = {}
    /\ hist = [n \in {"R1", "R2"} |-> <<>>]
    /\ last = NoLast

Inject ==
    \E n \in DOMAIN node, i \in FwdInputs :
        RxTotal < MaxRx /\ Rx(n, i.f, i.rssi, LINK_SNR)

Relay == \E e \in air : RxTotal < MaxRx /\ Deliver(e)

Ticks == \E n \in DOMAIN node : Tick(n, Links[n])

Next == Inject \/ Relay \/ Ticks

Spec == Init /\ [][Next]_vars

(***************************************************************************)
(* Properties of the forwarding engine, checked under Spec                  *)
(***************************************************************************)
\* the frame of the last reception, as the handler saw it
Received == StampRx(last.pkt, last.rssi, last.snr, last.now)

\* the packets the last handler appended to its node's transmit queue
QueuedBy ==
    SubSeq(node[last.n].tx_queue, Len(last.pre.tx_queue) + 1,
           Len(node[last.n].tx_queue))

\* the last step was a reception by a repeater
RepeaterRx == last.op = "rx" /\ last.pre.role = "repeater"

\* the last handler counted a forward
Forwarded == node[last.n].stats.fwd_count # last.pre.stats.fwd_count

\* the last handler queued nothing that carries the received header and payload
NoCopyQueued ==
    \A i \in 1..Len(QueuedBy) :
        ~(QueuedBy[i].header = last.pkt.header
          /\ QueuedBy[i].payload = last.pkt.payload)

\* C2: a flood-class frame whose path already holds the repeater's own hash is
\* never enqueued for forwarding and leaves the forward counter unchanged.
C2_FloodLoopNotForwarded ==
    (/\ RepeaterRx
     /\ is_flood(last.pkt)
     /\ Contains(last.pkt.path, last.pre.identity.hash))
    => (~Forwarded /\ NoCopyQueued)

\* C2 case: a flood frame with the own hash in its path passed every check up
\* to and including the dedup cache (its id was inserted) and was received
C2_Witness ==
    /\ RepeaterRx
    /\ is_flood(last.pkt)
    /\ Contains(last.pkt.path, last.pre.identity.hash)
    /\ node[last.n].packet_cache # last.pre.packet_cache

\* C3: a direct-class frame is forwarded only if its path is nonempty and
\* path[0] is the repeater's own hash; otherwise nothing is enqueued and the
\* forward counter is unchanged.
C3_DirectOnlyNextHop ==
    (/\ RepeaterRx
     /\ is_direct(last.pkt)
     /\ ~(Len(last.pkt.path) > 0 /\ last.pkt.path[1] = last.pre.identity.hash))
    => (~Forwarded /\ NoCopyQueued)

\* C3 case: a direct frame with a nonempty path whose head is another node's
\* hash was received at a signal level that allows forwarding
C3_Witness ==
    /\ RepeaterRx
    /\ is_direct(last.pkt)
    /\ Len(last.pkt.path) > 0
    /\ last.pkt.path[1] # last.pre.identity.hash
    /\ last.rssi >= MC_MIN_RSSI_FORWARD

\* the copy the claim describes: the received frame with only its path changed
ExpectedCopy ==
    [Received EXCEPT !.path =
        IF is_direct(last.pkt)
        THEN [i \in 1..(Len(last.pkt.path) - 1) |-> last.pkt.path[i + 1]]
        ELSE [i \in 1..(Len(last.pkt.path) + 1) |->
                 IF i <= Len(last.pkt.path) THEN last.pkt.path[i]
                 ELSE last.pre.identity.hash]]

\* the direct frame S sends towards D over R1 and R2, as it is on the air
ChainFrame(e) ==
    e.pkt.header = DirectChain.header /\ e.pkt.payload = DirectChain.payload

\* C4: whenever a repeater forwards a frame, the enqueued copy is the received
\* frame with only the path changed: the head removed (direct) or the own hash
\* appended (flood); the copy is the last element of the queue unless the queue
\* was full and took nothing.  On the chain R1 - R2 the frame with path
\* [R1, R2, D] leaves R1 with [R2, D] and leaves R2 with [D].
C4_PathRewrite ==
    /\ (RepeaterRx /\ Forwarded) =>
          \/ /\ QueuedBy # <<>>
             /\ QueuedBy[Len(QueuedBy)] = ExpectedCopy
             /\ Len(ExpectedCopy.path) =
                   Len(last.pkt.path) + (IF is_direct(last.pkt) THEN 0 - 1 ELSE 1)
          \/ /\ Len(node[last.n].tx_queue) = MC_TX_QUEUE_SIZE
             /\ NoCopyQueued
    /\ \A e \in air :
          ChainFrame(e) =>
             /\ e.src = "R1" => e.pkt.path = <<Hash.R2, Hash.D>>
             /\ e.src = "R2" => e.pkt.path = <<Hash.D>>

\* C4 case: the chain frame went through R1 and then R2, and R2's copy is on
\* the air with path [D]
C4_Witness ==
    \E e \in air : ChainFrame(e) /\ e.src = "R2" /\ e.pkt.path = <<Hash.D>>

(***************************************************************************)
(* SpecDedup: one repeater and a stream of distinct flood frames long       *)
(* enough to wrap the dedup ring, with replays of the first frames          *)
(***************************************************************************)
\* receptions in one behaviour: enough for MC_PACKET_ID_CACHE other frames
\* between two receptions of the same frame
DedupMaxRx == 35

\* the frames of the stream that are sent again
Replayed == {1, 2}

\* the k-th frame of the stream: a flood group text from S
StreamFrame(k) ==
    MkPacket(make_header(MC_ROUTE_FLOOD, MC_PAYLOAD_GROUP_TEXT, MC_PAYLOAD_VER_1),
             <<Hash.S>>, <<k>>)

\* the distinct ids the dedup cache of n has reported new so far
SeenIds(n) == {hist[n][i] : i \in 1..Len(hist[n])}

InitDedup ==
    /\ clock = 0
    /\ node = [n \in {"R1"} |-> Repeater(n)]
    /\ air = {}
    /\ hist = [n \in {"R1"} |-> <<>>]
    /\ last = NoLast

\* the next frame of the stream arrives
StreamNext ==
    /\ RxTotal < DedupMaxRx
    /\ Rx("R1", StreamFrame(Cardinality(SeenIds("R1")) + 1), LINK_RSSI, LINK_SNR)

\* an earlier frame of the stream arrives again
StreamReplay ==
    \E k \in Replayed :
        /\ RxTotal < DedupMaxRx
        /\ k <= Cardinality(SeenIds("R1"))
        /\ Rx("R1", StreamFrame(k), LINK_RSSI, LINK_SNR)

\* the runner ticks the repeater, which hands its queue to the radio
StreamTick == node["R1"].tx_queue # <<>> /\ Tick("R1", {})

NextDedup == StreamNext \/ StreamReplay \/ StreamTick

SpecDedup == InitDedup /\ [][NextDedup]_vars

\* the distinct ids other than hist[n][i] reported new strictly between
\* positions i and j of the history of n
OthersBetween(n, i, j) ==
    {hist[n][k] : k \in (i + 1)..(j - 1)} \ {hist[n][i]}

\* C1: the dedup cache never reports an id new twice unless at least 32 other
\* distinct ids were inserted in between, and a received frame whose id is
\* still in the cache is not enqueued for forwarding and not counted.
C1_DedupWindow ==
    /\ \A n \in DOMAIN node :
          \A i, j \in 1..Len(hist[n]) :
              (i < j /\ hist[n][i] = hist[n][j]) =>
                  Cardinality(OthersBetween(n, i, j)) >= 32
    /\ (/\ RepeaterRx
        /\ Contains(last.pre.packet_cache.ids, get_packet_id(last.pkt)))
       => (~Forwarded /\ NoCopyQueued)

\* C1 case: the first frame was reported new, pushed out of the ring by other
\* frames, and reported new again when it was replayed
C1_Witness ==
    \E i, j \in 1..Len(hist["R1"]) :
        /\ i < j
        /\ hist["R1"][i] = hist["R1"][j]
        /\ RepeaterRx
        /\ Forwarded

(***************************************************************************)
(* SpecCompanion: one companion, frames a repeater would forward, pings and *)
(* traces addressed to it, a peer's advert, commands, the clock and ticks   *)
(***************************************************************************)
\* receptions, ping or trace commands and clock advances in one behaviour
CompMaxEvents == 4

\* the receptions, commands and clock advances so far
CompEvents == node["C1"].stats.rx_count + node["C1"].ping_counter + Advances

PingToC ==
    MkPacket(make_header(MC_ROUTE_FLOOD, MC_PAYLOAD_PLAIN, MC_PAYLOAD_VER_1),
             <<Hash.S>>, <<Hash.C1, Hash.S, 68, 80>>)

TraceToC ==
    MkPacket(make_header(MC_ROUTE_FLOOD, MC_PAYLOAD_PLAIN, MC_PAYLOAD_VER_1),
             <<Hash.S>>, <<Hash.C1, Hash.S, 68, 84>>)

DirectViaC ==
    MkPacket(make_header(MC_ROUTE_DIRECT, MC_PAYLOAD_REQUEST, MC_PAYLOAD_VER_1),
             <<Hash.C1, Hash.D>>, ReqPayload)

CompInputs ==
    {PingToC, TraceToC, FloodPing, DirectViaC,
     AdvertFrom("X", MC_TYPE_CHAT_NODE, T0, MC_ROUTE_FLOOD)}

InitCompanion ==
    /\ clock = 0
    /\ node = [n \in {"C1"} |-> Companion(n)]
    /\ air = {}
    /\ hist = [n \in {"C1"} |-> <<>>]
    /\ last = NoLast

CompRx ==
    \E f \in CompInputs :
        CompEvents < CompMaxEvents /\ Rx("C1", f, LINK_RSSI, LINK_SNR)

CompCmd ==
    \E c \in {"ping", "trace"} :
        CompEvents < CompMaxEvents /\ Cmd("C1", c, Hash.D)

\* the runner ticks the companion; a tick with an empty queue and no timer
\* armed returns nothing and changes nothing
CompTick ==
    /\ \/ node["C1"].tx_queue # <<>>
       \/ node["C1"].pending_advert_time > 0
       \/ node["C1"].time_sync.synchronized
    /\ Tick("C1", {})

CompAdvance ==
    \E ms \in {ADVERT_AFTER_SYNC_MS, DEFAULT_ADVERT_INTERVAL_MS} :
        /\ CompEvents < CompMaxEvents
        /\ node["C1"].time_sync.synchronized
        /\ Advance(ms)

NextCompanion == CompRx \/ CompCmd \/ CompTick \/ CompAdvance

SpecCompanion == InitCompanion /\ [][NextCompanion]_vars

\* an advert of the node itself: no path, its own public key in front
OwnAdvert(nd, p) ==
    /\ get_payload_type(p.header) = MC_PAYLOAD_ADVERT
    /\ p.path = <<>>
    /\ Len(p.payload) >= MC_PUBLIC_KEY_SIZE
    /\ \A i \in 1..MC_PUBLIC_KEY_SIZE : p.payload[i] = nd.identity.public_key[i]

\* a ping, trace, pong or trace response of the node itself: a flood PLAIN with
\* path [own hash], the own hash as source byte and one of the four markers
OwnPlain(nd, p) ==
    /\ get_route_type(p.header) = MC_ROUTE_FLOOD
    /\ get_payload_type(p.header) = MC_PAYLOAD_PLAIN
    /\ p.path = <<nd.identity.hash>>
    /\ Len(p.payload) >= 4
    /\ p.payload[2] = nd.identity.hash
    /\ <<p.payload[3], p.payload[4]>> \in
          {<<68, 80>>, <<68, 84>>, <<80, 79>>, <<84, 82>>}

OwnPackets(nd, q) ==
    \A i \in 1..Len(q) : OwnAdvert(nd, q[i]) \/ OwnPlain(nd, q[i])

\* C5: a companion never forwards: its forward counter stays 0, and every
\* packet in its transmit queue and every packet a tick hands to the radio is
\* its own advert or its own DP / DT / PO / TR plain packet.
C5_CompanionNeverForwards ==
    \A n \in DOMAIN node :
        node[n].role = "companion" =>
            /\ node[n].stats.fwd_count = 0
            /\ OwnPackets(node[n], node[n].tx_queue)
            /\ (last.op = "tick" /\ last.n = n) => OwnPackets(node[n], last.out)

\* C5 case: the companion received a frame that a repeater in the same state
\* would forward, while packets of its own were waiting in the queue
C5_Witness ==
    /\ last.op = "rx"
    /\ last.pre.role = "companion"
    /\ _should_forward(last.pre, Received)
    /\ last.pre.tx_queue # <<>>

(***************************************************************************)
(* SpecMboxNode: one repeater, a peer X that advertises and then goes       *)
(* silent, frames for X from S, the clock moving past the offline age       *)
(***************************************************************************)
\* adverts of X received in one behaviour
MboxMaxAdverts == 3

\* other frames received in one behaviour
MboxMaxFrames == 2

AdvertX == AdvertFrom("X", MC_TYPE_CHAT_NODE, T0, MC_ROUTE_FLOOD)

\* a directed ping from S to X
PlainToX ==
    MkPacket(make_header(MC_ROUTE_FLOOD, MC_PAYLOAD_PLAIN, MC_PAYLOAD_VER_1),
             <<Hash.S>>, <<Hash.X, Hash.S, 68, 80>>)

\* a request from S to X
ReqToX ==
    MkPacket(make_header(MC_ROUTE_FLOOD, MC_PAYLOAD_REQUEST, MC_PAYLOAD_VER_1),
             <<Hash.S>>, <<Hash.X, Hash.S, 1>>)

\* a plain frame whose whole payload is the destination byte
ShortToX ==
    MkPacket(make_header(MC_ROUTE_FLOOD, MC_PAYLOAD_PLAIN, MC_PAYLOAD_VER_1),
             <<Hash.S>>, <<Hash.X>>)

\* a directed ping from X to S, heard directly from X
PlainFromX ==
    MkPacket(make_header(MC_ROUTE_FLOOD, MC_PAYLOAD_PLAIN, MC_PAYLOAD_VER_1),
             <<Hash.X>>, <<Hash.S, Hash.X, 68, 80>>)

MboxFrames == {PlainToX, ReqToX, ShortToX, PlainFromX}

InitMboxNode ==
    /\ clock = 0
    /\ node = [n \in {"R1"} |-> Repeater(n)]
    /\ air = {}
    /\ hist = [n \in {"R1"} |-> <<>>]
    /\ last = NoLast

\* the repeater has something to hand to the radio at its next tick
MboxTickDue ==
    \/ node["R1"].tx_queue # <<>>
    \/ (node["R1"].pending_advert_time > 0
        /\ clock >= node["R1"].pending_advert_time)

\* the runner ticks every node in every step, so at most one frame reaches the
\* repeater between two of its ticks
MboxAdvert ==
    /\ ~MboxTickDue
    /\ node["R1"].stats.adv_rx_count < MboxMaxAdverts
    /\ Rx("R1", AdvertX, LINK_RSSI, LINK_SNR)

MboxFrame ==
    \E f \in MboxFrames :
        /\ ~MboxTickDue
        /\ node["R1"].stats.rx_count - node["R1"].stats.adv_rx_count < MboxMaxFrames
        /\ Rx("R1", f, LINK_RSSI, LINK_SNR)

MboxTick == MboxTickDue /\ Tick("R1", {})

\* the clock moves once, to the offline age or one millisecond past it
MboxAdvance ==
    \E ms \in {HEALTH_OFFLINE_MS, HEALTH_OFFLINE_MS + 1} :
        clock = 0 /\ Advance(ms)

NextMboxNode == MboxAdvert \/ MboxFrame \/ MboxTick \/ MboxAdvance

SpecMboxNode == InitMboxNode /\ [][NextMboxNode]_vars

\* the last reception was an advert of a peer with entries waiting in the mailbox
AdvertWithPending ==
    /\ RepeaterRx
    /\ get_payload_type(last.pkt.header) = MC_PAYLOAD_ADVERT
    /\ Len(last.pkt.payload) >= ADVERT_MIN_SIZE
    /\ \E i \in AllIdx :
          /\ last.pre.mailbox[i].pkt_data # <<>>
          /\ last.pre.mailbox[i].dest_hash = last.pkt.payload[1]

\* the bytes waiting for the advertising peer, in the order pop_for takes them
PendingData ==
    SelectSeq([i \in AllIdx |-> last.pre.mailbox[i]],
              LAMBDA sl : sl.pkt_data # <<>> /\ sl.dest_hash = last.pkt.payload[1])

\* C6: on an advert from a peer with pending mailbox entries every entry for
\* that peer is popped, the packet enqueued for each one is the deserialization
\* of the stored bytes (header, path and payload of the stored frame), and
\* afterwards no entry for the peer is left.
C6_DeliveryEnqueuesStored ==
    AdvertWithPending =>
        /\ \A i \in AllIdx :
              ~(/\ node[last.n].mailbox[i].pkt_data # <<>>
                /\ node[last.n].mailbox[i].dest_hash = last.pkt.payload[1])
        /\ Len(QueuedBy) >= Len(PendingData)
        /\ \A j \in 1..Len(PendingData) :
              Wire(QueuedBy[j]) = Wire(deserialize(PendingData[j].pkt_data))

\* the conditions of the claim, on the sighting table and the clock state the
\* handler tests them against (after the base handler's own bookkeeping)
C7_Claimed ==
    /\ get_payload_type(last.pkt.header) \in
          {MC_PAYLOAD_REQUEST, MC_PAYLOAD_RESPONSE, MC_PAYLOAD_PLAIN,
           MC_PAYLOAD_ANON_REQ}
    /\ Len(last.pkt.payload) >= 1
    /\ last.pkt.payload[1] # 0
    /\ last.pkt.payload[1] # last.pre.identity.hash
    /\ \E i \in 1..Len(node[last.n].seen_nodes) :
          /\ node[last.n].seen_nodes[i].hash = last.pkt.payload[1]
          /\ node[last.n].seen_nodes[i].pkt_count >= 2
          /\ last.now - node[last.n].seen_nodes[i].last_seen > 1800000
    /\ node[last.n].time_sync.synchronized

\* store was invoked with the received frame: its bytes were already held, or
\* exactly one slot now holds them for payload[0], all other slots as before
StoreTookEffect ==
    \/ \E i \in AllIdx : last.pre.mailbox[i].pkt_data = serialize(last.pkt)
    \/ \E i \in AllIdx :
          /\ node[last.n].mailbox[i].pkt_data = serialize(last.pkt)
          /\ node[last.n].mailbox[i].dest_hash = last.pkt.payload[1]
          /\ \A j \in AllIdx \ {i} : node[last.n].mailbox[j] = last.pre.mailbox[j]

\* no slot was written: every slot is as before, or was emptied by a delivery
NoSlotWritten ==
    \A i \in AllIdx :
        \/ node[last.n].mailbox[i] = last.pre.mailbox[i]
        \/ node[last.n].mailbox[i] = MailboxSlot

MbMaxStores == 7

\* stored-at times handed to store
MbTimes == {1, 2}

\* destinations handed to store and pop_for
MbDests == {Hash.X, Hash.S}

\* the bytes of the next store that no earlier store has used
FreshData == <<Len(hist["M"]) + 1>>

\* the calls of store: new bytes at either time, the second for S and the
\* others for X; the bytes of the first accepted store again, and no bytes,
\* for S at the later time
MbStoreCalls ==
    {[dest |-> IF Len(hist["M"]) = 1 THEN Hash.S ELSE Hash.X,
      data |-> FreshData, ts |-> ts] : ts \in MbTimes}
    \cup {[dest |-> Hash.S, data |-> data, ts |-> 2] : data \in {<<1>>, <<>>}}

InitMailbox ==
    /\ clock = 0
    /\ node = [n \in {"M"} |-> [mailbox |-> Mailbox]]
    /\ air = {}
    /\ hist = [n \in {"M"} |-> <<>>]
    /\ last = NoLast

\* Mailbox.store(dest, data, ts); hist keeps the destination and bytes of the
\* accepted stores, last the call, its return value and the mailbox it found
MbStore(dest, data, ts) ==
    /\ node' = [node EXCEPT !["M"].mailbox = Mailbox_store(@, dest, data, ts)]
    /\ hist' = [hist EXCEPT !["M"] =
                   IF Mailbox_store_ok(node["M"].mailbox, data)
                   THEN Append(@, [dest |-> dest, data |-> data]) ELSE @]
    /\ last' = [op |-> "store", dest |-> dest, pkt |-> data, now |-> ts,
                out |-> Mailbox_store_ok(node["M"].mailbox, data),
                pre |-> node["M"].mailbox]
    /\ UNCHANGED <<clock, air>>

\* Mailbox.pop_for(dest); last keeps the call, the returned bytes and the
\* mailbox it found
MbPop(dest) ==
    /\ node' = [node EXCEPT !["M"].mailbox = Mailbox_pop_for(@, dest)]
    /\ last' = [op |-> "pop_for", dest |-> dest,
                out |-> Mailbox_pop_data(node["M"].mailbox, dest),
                pre |-> node["M"].mailbox]
    /\ UNCHANGED <<clock, air, hist>>

\* Mailbox.expire_old(now); last keeps the call and the mailbox it found
MbExpire(now) ==
    /\ node' = [node EXCEPT !["M"].mailbox = expire_old(@, now)]
    /\ last' = [op |-> "expire_old", now |-> now, pre |-> node["M"].mailbox]
    /\ UNCHANGED <<clock, air, hist>>

\* Mailbox.clear()
MbClear ==
    /\ node' = [node EXCEPT !["M"].mailbox = Mailbox_clear(@)]
    /\ last' = [op |-> "clear"]
    /\ UNCHANGED <<clock, air, hist>>

StoreStep ==
    \E c \in MbStoreCalls :
        Len(hist["M"]) < MbMaxStores /\ MbStore(c.dest, c.data, c.ts)

\* entries taken out again in one behaviour before pop_for stops finding any
MbMaxGone == 2

\* accepted stores whose entry is no longer held
Gone == Len(hist["M"]) - get_count(node["M"].mailbox)

PopStep ==
    \E dest \in MbDests :
        /\ count_for(node["M"].mailbox, dest) = 0 \/ Gone < MbMaxGone
        /\ MbPop(dest)

\* expiry at the moment the older of the stored-at times passes the TTL
ExpireStep == MbExpire(1 + MAILBOX_TTL_SEC + 1)

ClearStep == get_count(node["M"].mailbox) > 0 /\ MbClear

NextMailbox == StoreStep \/ PopStep \/ ExpireStep \/ ClearStep

SpecMailbox == InitMailbox /\ [][NextMailbox]_vars

(***************************************************************************)
(* Mailbox properties                                                      *)
(***************************************************************************)
\* the bytes of the accepted stores of log h that were for dest
StoredFor(h, dest) == {h[i].data : i \in {k \in 1..Len(h) : h[k].dest = dest}}

RECURSIVE PopN(_, _, _)
\* the mailbox after k calls of pop_for(dest)
PopN(mbox, dest, k) ==
    IF k = 0 THEN mbox ELSE PopN(Mailbox_pop_for(mbox, dest), dest, k - 1)

\* no two stored slots hold the same bytes
NoTwoSame(mbox) ==
    \A i, j \in AllIdx :
        (i # j /\ ~is_empty(mbox[i]) /\ ~is_empty(mbox[j]))
            => mbox[i].pkt_data # mbox[j].pkt_data

\* C8: once store(dest, bytes, ts) has returned true, count_for(dest) is at
\* least 1 and pop_for(dest) returns bytes some accepted store put there for
\* that dest; pop_for(dest) called as often as there are entries for dest, at
\* most 6 times, returns none from then on and count_for(dest) is 0;
\* pop_for(dest) empties exactly the slot whose bytes it returns, a slot stored
\* for dest, and leaves the slots of every other dest as they were.
C8_StorePopCount ==
    LET m == node["M"].mailbox
        h == hist["M"]
    IN  /\ (last.op = "store" /\ last.out) =>
              /\ count_for(m, last.dest) >= 1
              /\ Mailbox_pop_slot(m, last.dest) # 0
              /\ Mailbox_pop_data(m, last.dest) \in StoredFor(h, last.dest)
        /\ last.op = "pop_for" =>
              /\ last.out # <<>> =>
                    /\ last.out \in StoredFor(h, last.dest)
                    /\ \E i \in AllIdx :
                          /\ last.pre[i].dest_hash = last.dest
                          /\ last.pre[i].pkt_data = last.out
                          /\ m = [last.pre EXCEPT ![i] = MailboxSlot]
              /\ last.out = <<>> =>
                    (m = last.pre /\ count_for(m, last.dest) = 0)
              /\ count_for(last.pre, last.dest)
                    <= MAILBOX_SLOTS + MAILBOX_RAM_SLOTS
              /\ Mailbox_pop_data(
                    PopN(last.pre, last.dest, count_for(last.pre, last.dest)),
                    last.dest) = <<>>
              /\ count_for(
                    PopN(last.pre, last.dest, count_for(last.pre, last.dest)),
                    last.dest) = 0
              /\ \A i \in AllIdx :
                    (~is_empty(last.pre[i]) /\ last.pre[i].dest_hash # last.dest)
                        => m[i] = last.pre[i]

\* a pop_for(X) returned bytes while the first slot held an entry for S
C8_Witness ==
    /\ last.op = "pop_for"
    /\ last.dest = Hash.X
    /\ last.out # <<>>
    /\ ~is_empty(node["M"].mailbox[1])
    /\ node["M"].mailbox[1].dest_hash = Hash.S

\* C9: a store whose bytes equal those of a stored slot, of either tier and
\* whatever the slot's dest and timestamp, returns false and leaves every slot
\* as it was, and so does a store of no bytes; no two stored slots ever hold
\* the same bytes.
C9_StoreIdempotent ==
    /\ NoTwoSame(node["M"].mailbox)
    /\ (/\ last.op = "store"
        /\ \/ Len(last.pkt) = 0
           \/ \E i \in AllIdx :
                 ~is_empty(last.pre[i]) /\ last.pre[i].pkt_data = last.pkt)
          => (~last.out /\ node["M"].mailbox = last.pre)

\* store(S, <<1>>, 2) was refused while <<1>> was held for X since time 1
C9_Witness ==
    /\ last.op = "store"
    /\ ~last.out
    /\ last.pkt = <<1>>
    /\ \E i \in AllIdx :
          /\ last.pre[i].pkt_data = <<1>>
          /\ last.pre[i].dest_hash # last.dest
          /\ last.pre[i].timestamp # last.now
    /\ get_count(last.pre) > 1

\* the slots the fill rule allows a store into mbox to write
FillRuleSlots(mbox) ==
    IF \E i \in EepromIdx : is_empty(mbox[i])
    THEN {i \in EepromIdx :
             is_empty(mbox[i]) /\ \A j \in 1..(i - 1) : ~is_empty(mbox[j])}
    ELSE IF \E i \in RamIdx : is_empty(mbox[i])
    THEN {i \in RamIdx :
             /\ is_empty(mbox[i])
             /\ \A j \in RamIdx : j < i => ~is_empty(mbox[j])}
    ELSE {i \in RamIdx :
             \A j \in RamIdx : mbox[i].timestamp <= mbox[j].timestamp}

\* C10: a store that returns true writes one slot and leaves the others as
\* they were: the first empty persistent slot if there is one, else the first
\* empty volatile slot, else a volatile slot of smallest stored-at; it never
\* overwrites a stored persistent slot, and at most 6 slots are ever stored.
C10_StoreOneSlot ==
    LET m == node["M"].mailbox
    IN  /\ (last.op = "store" /\ last.out) =>
              /\ \E w \in FillRuleSlots(last.pre) :
                    m = [last.pre EXCEPT ![w] =
                            [dest_hash |-> last.dest, timestamp |-> last.now,
                             pkt_data |-> last.pkt]]
              /\ \A i \in EepromIdx :
                    ~is_empty(last.pre[i]) => m[i] = last.pre[i]
        /\ get_count(m) <= MAILBOX_SLOTS + MAILBOX_RAM_SLOTS

\* a store found all 6 slots taken, the first volatile slot not among the
\* oldest, and wrote another volatile slot
C10_Witness ==
    /\ last.op = "store"
    /\ last.out
    /\ get_count(last.pre) = MAILBOX_SLOTS + MAILBOX_RAM_SLOTS
    /\ \E w \in RamIdx :
          /\ w # FirstOf(RamIdx)
          /\ node["M"].mailbox[w].pkt_data = last.pkt
          /\ last.pre[w].timestamp < last.pre[FirstOf(RamIdx)].timestamp

(***************************************************************************)
(* SpecMboxTtl: one repeater whose mailbox holds a message while more than *)
(* the TTL passes and the repeater keeps ticking                           *)
(***************************************************************************)
\* the clock moves once past the TTL of a held message
TtlAdvance ==
    /\ get_count(node["R1"].mailbox) > 0
    /\ clock < MAILBOX_TTL_SEC * 1000
    /\ Advance((MAILBOX_TTL_SEC + 1) * 1000)

\* the runner's tick of the repeater after the TTL has passed
TtlTick == clock >= MAILBOX_TTL_SEC * 1000 /\ Tick("R1", {})

NextMboxTtl ==
    MboxAdvert \/ MboxFrame \/ MboxTick \/ MboxAdvance \/ TtlAdvance \/ TtlTick

SpecMboxTtl == InitMboxNode /\ [][NextMboxTtl]_vars

\* the slots of mbox that are held longer than the TTL at unix time now_s
Overdue(mbox, now_s) ==
    {i \in AllIdx :
        ~is_empty(mbox[i]) /\ now_s - mbox[i].timestamp > MAILBOX_TTL_SEC}

\* C11: after any tick of a repeater no stored mailbox slot is older than
\* 86,400 s by the repeater's current timestamp.
C11_TickExpires ==
    (last.op = "tick" /\ node[last.n].role = "repeater") =>
        Overdue(node[last.n].mailbox,
                get_timestamp(node[last.n].time_sync, clock)) = {}

(***************************************************************************)
(* Mailbox expiry                                                          *)
(***************************************************************************)
\* C12: expire_old(now_s) empties every stored slot with now_s - stored-at >
\* 86,400 and leaves every other slot as it was; a slot stored at t survives
\* expire_old(t + 86400) and is emptied by expire_old(t + 86401).
C12_ExpireExactly ==
    last.op = "expire_old" =>
        \A i \in AllIdx :
            /\ (~is_empty(last.pre[i])
                /\ last.now - last.pre[i].timestamp > MAILBOX_TTL_SEC)
                  => node["M"].mailbox[i] = MailboxSlot
            /\ ~(~is_empty(last.pre[i])
                 /\ last.now - last.pre[i].timestamp > MAILBOX_TTL_SEC)
                  => node["M"].mailbox[i] = last.pre[i]
            /\ (~is_empty(last.pre[i])
                /\ last.now = last.pre[i].timestamp + MAILBOX_TTL_SEC)
                  => node["M"].mailbox[i] = last.pre[i]
            /\ (~is_empty(last.pre[i])
                /\ last.now = last.pre[i].timestamp + MAILBOX_TTL_SEC + 1)
                  => is_empty(node["M"].mailbox[i])

\* expire_old found one slot exactly 86,400 s old and one 86,401 s old
C12_Witness ==
    /\ last.op = "expire_old"
    /\ \E i, j \in AllIdx :
          /\ ~is_empty(last.pre[i])
          /\ last.now = last.pre[i].timestamp + MAILBOX_TTL_SEC
          /\ ~is_empty(last.pre[j])
          /\ last.now = last.pre[j].timestamp + MAILBOX_TTL_SEC + 1
          /\ is_empty(node["M"].mailbox[j])

(***************************************************************************)
(* SpecTimeSync: one TimeSync object under a monotone clock, fed advert     *)
(* timestamps that agree with its own time or are off by some seconds       *)
(***************************************************************************)
\* sync_from_advert calls and clock advances in one behaviour
TsMaxEvents == 5

\* how far, in seconds, an advert's timestamp is from the time of the object
TsOffsets == {0, 299, 300, 1000, 1001, 0 - 1000, 0 - 1001}

\* the clock advances between calls, in ms
TsSteps == {1000, 10000, CONSENSUS_WINDOW_MS}

\* 2019-12-31 23:59:59 UTC, one second before the earliest accepted timestamp
TsTooEarly == 1577836800 - 1

InitTimeSync ==
    /\ clock = 0
    /\ node = [n \in {"T"} |-> [time_sync |-> TimeSync]]
    /\ air = {}
    /\ hist = [n \in {"T"} |-> <<>>]
    /\ last = NoLast

\* TimeSync.sync_from_advert(unix_time) at the current clock
TsSync(unix_time) ==
    /\ node' = [node EXCEPT !["T"].time_sync = sync_from_advert(@, unix_time, clock)]
    /\ hist' = [hist EXCEPT !["T"] =
                   Append(@, sync_result(node["T"].time_sync, unix_time, clock))]
    /\ last' = [op |-> "sync_from_advert", unix_time |-> unix_time, now |-> clock,
                pre |-> node["T"].time_sync,
                out |-> sync_result(node["T"].time_sync, unix_time, clock)]
    /\ UNCHANGED <<clock, air>>

TsAdvert ==
    \E d \in TsOffsets :
        /\ Len(hist["T"]) < TsMaxEvents
        /\ TsSync((IF node["T"].time_sync.synchronized
                   THEN get_timestamp(node["T"].time_sync, clock) ELSE T0) + d)

TsBadAdvert == Len(hist["T"]) < TsMaxEvents /\ TsSync(TsTooEarly)

\* VirtualClock.advance between two calls
TsAdvance ==
    \E ms \in TsSteps :
        /\ Len(hist["T"]) < TsMaxEvents
        /\ clock' = clock + ms
        /\ hist' = [hist EXCEPT !["T"] = Append(@, 3)]
        /\ last' = [op |-> "advance", now |-> clock, pre |-> node["T"].time_sync]
        /\ UNCHANGED <<node, air>>

NextTimeSync == TsAdvert \/ TsBadAdvert \/ TsAdvance

SpecTimeSync == InitTimeSync /\ [][NextTimeSync]_vars

\* the pending candidate aged forward to the time of the call
pending_adjusted(ts, now) ==
    ts.pending_timestamp + ((now - ts.pending_millis) \div 1000)

\* the last step was sync_from_advert on a synchronized object
SyncedCall == last.op = "sync_from_advert" /\ last.pre.synchronized

\* C13: on a synchronized TimeSync, the base changes only when the call returns
\* resync; resync is returned only with a pending candidate recorded less than
\* 3,600,000 ms ago that, aged forward, is within 300 s of the new timestamp;
\* the new base is then the mean of the two and the candidate is cleared; a
\* first advert with a timestamp in the accepted range, 300 s or more off, is
\* only recorded as pending
C13_ResyncRule ==
    SyncedCall =>
        LET pre == last.pre
            post == node["T"].time_sync
            aged == pending_adjusted(pre, last.now)
            our_time == get_timestamp(pre, last.now)
        IN  /\ (post.base_timestamp # pre.base_timestamp
                \/ post.base_millis # pre.base_millis) => last.out = 2
            /\ last.out = 2 =>
                   /\ pre.pending_timestamp > 0
                   /\ last.now - pre.pending_millis < 3600000
                   /\ Abs(last.unix_time - aged) < 300
                   \* the floor of (aged + unix_time) / 2, stated on differences
                   /\ 2 * (post.base_timestamp - aged) <= last.unix_time - aged
                   /\ last.unix_time - aged <= 2 * (post.base_timestamp - aged) + 1
                   /\ post.base_millis = last.now
                   /\ post.pending_timestamp = 0
            /\ (/\ ~TimestampImplausible(last.unix_time)
                /\ pre.pending_timestamp = 0
                /\ Abs(last.unix_time - our_time) >= 300) =>
                   /\ last.out = 0
                   /\ post.base_timestamp = pre.base_timestamp
                   /\ post.base_millis = pre.base_millis
                   /\ post.pending_timestamp = last.unix_time
                   /\ post.pending_millis = last.now

\* a resync has happened, and so has a first out-of-tolerance advert
C13_Witness ==
    /\ SyncedCall
    /\ last.out = 2
    /\ node["T"].time_sync.base_timestamp # last.pre.base_timestamp
    /\ \E i \in 1..Len(hist["T"]) : hist["T"][i] = 3

(***************************************************************************)
(* SpecOnePeer: repeater R1 hears adverts of the single peer X only, each   *)
(* either directly or relayed by R2, X's clock being right or 1000 s ahead  *)
(***************************************************************************)
\* adverts received in one behaviour
PeerMaxAdverts == 3

\* the last clock value at which the clock still advances, in ms
PeerMaxClock == 6000

\* the timestamps X puts into its adverts
PeerTimes == {T0, T0 + 1000}

\* the path of an advert of X as it arrives: direct, or relayed by R2
PeerPaths == {<<>>, <<Hash.R2>>}

PeerAdvertFrame(t, p) ==
    LET a == AdvertFrom("X", MC_TYPE_CHAT_NODE, t, MC_ROUTE_FLOOD)
    IN  MkPacket(a.header, p, a.payload)

PeerAdvert ==
    \E t \in PeerTimes, p \in PeerPaths :
        /\ ~MboxTickDue
        /\ node["R1"].stats.adv_rx_count < PeerMaxAdverts
        /\ Rx("R1", PeerAdvertFrame(t, p), LINK_RSSI, LINK_SNR)

PeerTick == MboxTickDue /\ Tick("R1", {})

PeerAdvance ==
    \E ms \in {1000, ADVERT_AFTER_SYNC_MS} :
        clock < PeerMaxClock /\ Advance(ms)

NextOnePeer == PeerAdvert \/ PeerTick \/ PeerAdvance

SpecOnePeer == InitMboxNode /\ [][NextOnePeer]_vars

\* the last reception was an advert, received by an already synchronized node
AdvertWhenSynced ==
    /\ last.op = "rx"
    /\ get_payload_type(last.pkt.header) = MC_PAYLOAD_ADVERT
    /\ last.pre.time_sync.synchronized

\* C14: when every advert a node receives originates from one peer (the same
\* frame arriving over different paths included), the time base of the
\* synchronized node is never changed
C14_OnePeerNoResync ==
    AdvertWhenSynced =>
        /\ node[last.n].time_sync.base_timestamp = last.pre.time_sync.base_timestamp
        /\ node[last.n].time_sync.base_millis = last.pre.time_sync.base_millis

\* the last step was a call or a clock advance on a synchronized object
SyncedStep == last.op \in {"sync_from_advert", "advance"} /\ last.pre.synchronized

\* the reading of get_timestamp before and after the last step
TimeBefore == get_timestamp(last.pre, last.now)
TimeAfter == get_timestamp(node["T"].time_sync, clock)

\* C15 as stated: after the first sync, get_timestamp never decreases across
\* clock advances and further sync_from_advert calls, whatever they return
C15_MonotoneAsStated ==
    /\ (last.op = "sync_from_advert" /\ last.out = 1) =>
           (last.unix_time <= TimeAfter /\ TimeAfter <= last.unix_time + 1)
    /\ SyncedStep => TimeAfter >= TimeBefore

\* C15: sync_from_advert(t) returning first_sync leaves get_timestamp in
\* [t, t+1]; from then on get_timestamp does not decrease when the clock
\* advances and is unchanged by every call that does not return resync
C15_MonotoneExceptResync ==
    /\ (last.op = "sync_from_advert" /\ last.out = 1) =>
           (last.unix_time <= TimeAfter /\ TimeAfter <= last.unix_time + 1)
    /\ (SyncedStep /\ last.op = "advance") => TimeAfter >= TimeBefore
    /\ (SyncedCall /\ last.out # 2) => TimeAfter = TimeBefore

\* a call without effect on the time, after the clock advanced and a resync
\* moved the time backwards earlier in the behaviour
C15_Witness ==
    /\ SyncedCall
    /\ last.out = 0
    /\ clock > 0
    /\ \E i \in 1..Len(hist["T"]) : hist["T"][i] = 2
    /\ TimeAfter < T0

(***************************************************************************)
(* SpecBreaker: repeater R1 hears zero-hop adverts of the repeaters R2 and  *)
(* X at good and bad SNR; the runner advances the clock and ticks R1 after  *)
(* every advance                                                           *)
(***************************************************************************)
\* adverts received in one behaviour
CbMaxAdverts == 4

\* the last clock value from which the clock advances with no breaker open
CbMaxClock == 0

\* the SNR a zero-hop advert is heard at, by sender
CbSamples ==
    {[id |-> "R2", snr |-> snr] :
        snr \in {CB_SNR_THRESHOLD - 1, CB_SNR_THRESHOLD, LINK_SNR}}
    \cup {[id |-> "X", snr |-> CB_SNR_THRESHOLD - 1]}

\* a zero-hop advert of a repeater whose clock is right
CbAdvertOf(id) ==
    AdvertFrom(id, MC_TYPE_REPEATER, T0 + (clock \div 1000), MC_ROUTE_DIRECT)

\* some neighbour's breaker is open
SomeOpen ==
    \E i \in 1..Len(node["R1"].neighbours) :
        node["R1"].neighbours[i].cb_state = CB_STATE_OPEN

\* the tick after a clock advance has work to do
CbTickDue ==
    \/ MboxTickDue
    \/ clock - node["R1"].last_quiet_eval >= QUIET_EVAL_PERIOD_MS

CbAdvert ==
    \E s \in CbSamples :
        /\ ~CbTickDue
        /\ node["R1"].stats.adv_rx_count < CbMaxAdverts
        /\ Rx("R1", CbAdvertOf(s.id), LINK_RSSI, s.snr)

CbTick == CbTickDue /\ Tick("R1", {})

CbAdvance ==
    \E ms \in {CB_TIMEOUT_MS, CB_TIMEOUT_MS + 1} :
        /\ ~CbTickDue
        /\ clock <= CbMaxClock \/ SomeOpen
        /\ Advance(ms)

NextBreaker == CbAdvert \/ CbTick \/ CbAdvance

SpecBreaker == InitMboxNode /\ [][NextBreaker]_vars

\* the breaker state of neighbour h in a neighbour table; 3 when h has no record
CbStateOf(neighbours, h) ==
    IF NbrIndex(neighbours, h) = 0 THEN 3
    ELSE neighbours[NbrIndex(neighbours, h)].cb_state

\* the last reception was a sample of neighbour h: a zero-hop advert of it
SampleOf(h) ==
    /\ last.op = "rx"
    /\ get_payload_type(last.pkt.header) = MC_PAYLOAD_ADVERT
    /\ Len(last.pkt.path) = 0
    /\ last.pkt.payload[1] = h

\* C16: per neighbour, the first sample creates the record closed whatever the
\* SNR; a later sample with SNR < -40 turns closed into open and leaves open
\* and half-open alone; a later sample with SNR >= -40 turns open and
\* half-open into closed; a reception changes no other breaker state
C16_SampleTransitions ==
    last.op = "rx" =>
        \A h \in {Hash.R2, Hash.X, Hash.D} :
            LET old == CbStateOf(last.pre.neighbours, h)
                new == CbStateOf(node[last.n].neighbours, h)
            IN  IF ~SampleOf(h) THEN new = old
                ELSE IF old = 3 THEN new = CB_STATE_CLOSED
                ELSE IF last.snr < 0 - 40
                THEN new = (IF old = CB_STATE_CLOSED THEN CB_STATE_OPEN ELSE old)
                ELSE new = CB_STATE_CLOSED

\* a sample at exactly -40 has closed the half-open breaker of R2
C16_Witness ==
    /\ SampleOf(Hash.R2)
    /\ last.snr = 0 - 40
    /\ CbStateOf(last.pre.neighbours, Hash.R2) = CB_STATE_HALF_OPEN
    /\ CbStateOf(node["R1"].neighbours, Hash.R2) = CB_STATE_CLOSED

\* weak fairness of the tick, WF_vars(CbTick), with ENABLED <<CbTick>>_vars
\* written as the guard CbTickDue it is equal to: a due tick drains the queue,
\* sends an advert or moves last_quiet_eval, so it always changes the state
TickFair == []<>(~CbTickDue) \/ []<><<CbTick>>_vars

\* SimRunner.run_step advances the clock and ticks every node in each step, so
\* neither the clock nor a due tick waits forever
SpecBreakerLive == SpecBreaker /\ TickFair /\ WF_vars(CbAdvance)

\* the age of the last sample of neighbour h when the last handler started
SampleAge(h) ==
    last.now - last.pre.neighbours[NbrIndex(last.pre.neighbours, h)].last_seen

\* a breaker turns half-open only in a tick, only from open, and only when
\* the last sample is more than 300,000 ms old; an open breaker whose last
\* sample is at most 300,000 ms old is still open after the tick
HalfOpenOnlyByTimeout ==
    last.op \in {"rx", "tick"} =>
        \A h \in {Hash.R2, Hash.X} :
            LET old == CbStateOf(last.pre.neighbours, h)
                new == CbStateOf(node[last.n].neighbours, h)
            IN  /\ (new = CB_STATE_HALF_OPEN /\ old # CB_STATE_HALF_OPEN) =>
                       /\ last.op = "tick"
                       /\ old = CB_STATE_OPEN
                       /\ SampleAge(h) > 300000
                /\ (last.op = "tick" /\ old = CB_STATE_OPEN /\ SampleAge(h) <= 300000) =>
                       new = CB_STATE_OPEN

\* C17: an open breaker becomes half-open only through the periodic
\* evaluation of a tick and only when more than 300,000 ms have passed since
\* the neighbour's last sample (at exactly 300,000 ms it stays open); with the
\* repeater ticking on, an open breaker becomes half-open unless a new sample
\* of the neighbour arrives
C17_HalfOpenByTimeout ==
    /\ []HalfOpenOnlyByTimeout
    /\ \A h \in {Hash.R2, Hash.X} :
           (CbStateOf(node["R1"].neighbours, h) = CB_STATE_OPEN)
               ~> (\/ CbStateOf(node["R1"].neighbours, h) = CB_STATE_HALF_OPEN
                   \/ SampleOf(h))

\* a tick has turned the open breaker of R2 half-open, 300,001 ms after its
\* last sample
C17_Witness ==
    /\ last.op = "tick"
    /\ CbStateOf(last.pre.neighbours, Hash.R2) = CB_STATE_OPEN
    /\ SampleAge(Hash.R2) = 300001
    /\ CbStateOf(node["R1"].neighbours, Hash.R2) = CB_STATE_HALF_OPEN

(***************************************************************************)
(* SpecBreakerFwd: repeater R1 hears zero-hop adverts of the repeater R2 at *)
(* good and bad SNR, and direct and flood frames to forward                 *)
(***************************************************************************)
\* adverts received in one behaviour
CbFwdMaxAdverts == 2

\* other frames received in one behaviour
CbMaxFrames == 1

\* a request from S to D that no earlier reception carried
CbPayload == <<Hash.D, Hash.S, node["R1"].stats.rx_count>>

\* direct frames with R1 as the hop to take and R2 or the unknown D as the
\* next one, and a flood frame whose path holds R2 in second place
CbFrames ==
    {MkPacket(make_header(MC_ROUTE_DIRECT, MC_PAYLOAD_REQUEST, MC_PAYLOAD_VER_1),
              <<Hash.R1, Hash[h]>>, CbPayload) : h \in {"R2", "D"}}
    \cup {MkPacket(make_header(MC_ROUTE_FLOOD, MC_PAYLOAD_REQUEST, MC_PAYLOAD_VER_1),
                   <<Hash.S, Hash.R2>>, CbPayload)}

CbFwdAdvert ==
    \E snr \in {CB_SNR_THRESHOLD - 1, LINK_SNR} :
        /\ ~CbTickDue
        /\ node["R1"].stats.adv_rx_count < CbFwdMaxAdverts
        /\ Rx("R1", CbAdvertOf("R2"), LINK_RSSI, snr)

CbFrame ==
    \E f \in CbFrames :
        /\ ~CbTickDue
        /\ node["R1"].stats.rx_count - node["R1"].stats.adv_rx_count < CbMaxFrames
        /\ Rx("R1", f, LINK_RSSI, LINK_SNR)

NextBreakerFwd == CbFwdAdvert \/ CbFrame \/ CbTick \/ CbAdvance

SpecBreakerFwd == InitMboxNode /\ [][NextBreakerFwd]_vars

\* the last reception passed _should_forward and the rate limiter
Admitted ==
    /\ last.op = "rx"
    /\ _should_forward(last.pre, StampRx(last.pkt, last.rssi, last.snr, last.now))
    /\ RateLimiter_allows(last.pre.forward_limiter, last.now \div 1000)

\* the last handler enqueued nothing and counted no forward
NothingForwarded ==
    /\ node[last.n].tx_queue = last.pre.tx_queue
    /\ node[last.n].stats.fwd_count = last.pre.stats.fwd_count

\* C18: an admitted direct frame whose next hop path[1] is a neighbour with an
\* open breaker is dropped, nothing enqueued and the forward counter
\* unchanged; with the next hop closed, half-open or unknown, and for every
\* flood frame, the frame is enqueued and counted
C18_OpenBreakerDrops ==
    Admitted =>
        IF /\ is_direct(last.pkt)
           /\ Len(last.pkt.path) >= 2
           /\ CbStateOf(last.pre.neighbours, last.pkt.path[2]) = CB_STATE_OPEN
        THEN NothingForwarded
        ELSE /\ Len(node[last.n].tx_queue) = Len(last.pre.tx_queue) + 1
             /\ node[last.n].stats.fwd_count = last.pre.stats.fwd_count + 1

\* a direct frame for the open next hop R2 has been dropped
C18_Witness ==
    /\ Admitted
    /\ is_direct(last.pkt)
    /\ last.pkt.path = <<Hash.R1, Hash.R2>>
    /\ CbStateOf(last.pre.neighbours, Hash.R2) = CB_STATE_OPEN
    /\ NothingForwarded

(***************************************************************************)
(* SpecRateLimit: repeater R1 receives bursts of distinct flood frames at   *)
(* seconds 0, 59, 60 and 61; hist keeps the second of every admission       *)
(***************************************************************************)
\* frames received in one behaviour
RlMaxFrames == 102

\* the clock value from which the clock no longer advances, in ms
RlMaxClock == 61000

\* a flood frame that no earlier reception carried
RlFrame ==
    MkPacket(make_header(MC_ROUTE_FLOOD, MC_PAYLOAD_REQUEST, MC_PAYLOAD_VER_1),
             <<Hash.S>>, CbPayload)

\* the limiter has blocked a frame in its current window
Saturated ==
    node["R1"].forward_limiter.count > node["R1"].forward_limiter.max_count

\* on_rx_packet of one frame; an admission is noted with its second
RlRx ==
    /\ ~CbTickDue
    /\ node["R1"].stats.rx_count < RlMaxFrames
    /\ node' = [node EXCEPT !["R1"] =
                   on_rx_packet(@, RlFrame, LINK_RSSI, LINK_SNR, clock)]
    /\ hist' = [hist EXCEPT !["R1"] =
                   IF node'["R1"].forward_limiter.total_allowed
                          # node["R1"].forward_limiter.total_allowed
                   THEN Append(@, clock \div 1000) ELSE @]
    /\ last' = [op |-> "rx", n |-> "R1", pkt |-> RlFrame, rssi |-> LINK_RSSI,
                snr |-> LINK_SNR, now |-> clock, pre |-> node["R1"], out |-> NoOut]
    /\ UNCHANGED <<clock, air>>

\* the tick that sends the forwarded frame
RlTick ==
    /\ CbTickDue
    /\ node' = [node EXCEPT !["R1"] = tick(@, clock)]
    /\ last' = [op |-> "tick", n |-> "R1", pkt |-> MCPacket, rssi |-> 0, snr |-> 0,
                now |-> clock, pre |-> node["R1"],
                out |-> tick_out(node["R1"], clock)]
    /\ UNCHANGED <<clock, air, hist>>

\* the clock moves between two bursts: from second 0 to second 59, then by
\* one second; a burst is either absent or lasts until the limiter blocks
RlAdvance ==
    /\ ~CbTickDue
    /\ clock < RlMaxClock
    /\ last = NoLast \/ Saturated
    /\ Advance(IF clock = 0 THEN 59000 ELSE 1000)

NextRateLimit == RlRx \/ RlTick \/ RlAdvance

SpecRateLimit == InitMboxNode /\ [][NextRateLimit]_vars

\* the admissions of hist in the 60 seconds that start at second t
AdmittedIn60(t) ==
    Cardinality({i \in 1..Len(hist["R1"]) :
                    t <= hist["R1"][i] /\ hist["R1"][i] < t + 60})

\* C19: in any span of 60 consecutive seconds the repeater admits at most 100
\* frames for forwarding
C19_SlidingWindow ==
    \A i \in 1..Len(hist["R1"]) : AdmittedIn60(hist["R1"][i]) <= 100

(***************************************************************************)
(* SpecQuiet: repeater R1, synchronized by an advert at 22:13 UTC, has its  *)
(* quiet hours set, changed and disabled while the clock advances by hours  *)
(* and every advance is followed by a tick                                  *)
(***************************************************************************)
\* the clock value from which the clock no longer advances, in hours
QhMaxHours == 3

\* one hour of the clock, in ms
QhHourMs == 3600 * 1000

\* the arguments of set_quiet_hours: a window that wraps past midnight, the
\* same window with a lower limit, and a window inside one day
QhConfigs ==
    {[start |-> 23, end |-> 1, max_fwd |-> QUIET_FORWARD_MAX_DEFAULT],
     [start |-> 23, end |-> 1, max_fwd |-> 20],
     [start |-> 0, end |-> 1, max_fwd |-> QUIET_FORWARD_MAX_DEFAULT]}

\* the arguments of the last set_quiet_hours, as the node holds them
QhConfigOf(nd) ==
    [start |-> nd.quiet_start_hour, end |-> nd.quiet_end_hour,
     max_fwd |-> nd.quiet_forward_max]

QhSync ==
    /\ ~node["R1"].time_sync.synchronized
    /\ Rx("R1", AdvertX, LINK_RSSI, LINK_SNR)

\* set_quiet_hours with arguments other than the ones in force
QhSet ==
    \E c \in QhConfigs :
        /\ ~CbTickDue
        /\ c # QhConfigOf(node["R1"])
        /\ node' = [node EXCEPT !["R1"] =
                       set_quiet_hours(@, c.start, c.end, c.max_fwd)]
        /\ last' = [op |-> "set_quiet_hours", n |-> "R1", now |-> clock,
                    pre |-> node["R1"]]
        /\ UNCHANGED <<clock, air, hist>>

QhDisable ==
    /\ ~CbTickDue
    /\ node["R1"].quiet_start_hour # QUIET_DISABLED
    /\ node' = [node EXCEPT !["R1"] = disable_quiet_hours(@)]
    /\ last' = [op |-> "disable_quiet_hours", n |-> "R1", now |-> clock,
                pre |-> node["R1"]]
    /\ UNCHANGED <<clock, air, hist>>

QhTick == CbTickDue /\ Tick("R1", {})

QhAdvance ==
    /\ ~CbTickDue
    /\ clock < QhMaxHours * QhHourMs
    /\ Advance(QhHourMs)

NextQuiet == QhSync \/ QhSet \/ QhDisable \/ QhTick \/ QhAdvance

SpecQuiet == InitMboxNode /\ [][NextQuiet]_vars

\* hour h lies in [start, end), the window wrapping past midnight when
\* start > end
InWindow(h, start, end) ==
    IF start <= end THEN start <= h /\ h < end ELSE h >= start \/ h < end

\* the last step was a tick that evaluated the quiet hours
QuietEvaluated ==
    /\ last.op = "tick"
    /\ last.now - last.pre.last_quiet_eval >= 60000
    /\ last.pre.quiet_start_hour # 255
    /\ last.pre.time_sync.synchronized

\* the hour of the day the last tick evaluated
EvalHour == (get_timestamp(last.pre.time_sync, last.now) % 86400) \div 3600

\* C20: after an evaluation for hour h with quiet hours enabled, the limiter's
\* maximum is the configured quiet-hours limit if h is in [start, end) and 100
\* otherwise; disabling restores 100 and leaves the quiet period
C20_QuietLimit ==
    /\ QuietEvaluated =>
           node["R1"].forward_limiter.max_count =
               (IF InWindow(EvalHour, node["R1"].quiet_start_hour,
                            node["R1"].quiet_end_hour)
                THEN node["R1"].quiet_forward_max ELSE 100)
    /\ last.op = "disable_quiet_hours" =>
           /\ node["R1"].forward_limiter.max_count = 100
           /\ ~node["R1"].in_quiet_period

(***************************************************************************)
(* SpecQueue: repeater R1 receives distinct flood frames and one advert of  *)
(* X, with or without a tick between two receptions                         *)
(***************************************************************************)
\* frames other than the advert received in one behaviour
QMaxFrames == 6

QFrame ==
    /\ node["R1"].stats.rx_count - node["R1"].stats.adv_rx_count < QMaxFrames
    /\ Rx("R1", RlFrame, LINK_RSSI, LINK_SNR)

QAdvert ==
    /\ ~node["R1"].time_sync.synchronized
    /\ Rx("R1", AdvertX, LINK_RSSI, LINK_SNR)

QTick == MboxTickDue /\ Tick("R1", {})

\* the clock moves once, to the time of the advert that follows a time sync
QAdvance == clock = 0 /\ Advance(ADVERT_AFTER_SYNC_MS)

NextQueue == QFrame \/ QAdvert \/ QTick \/ QAdvance

SpecQueue == InitMboxNode /\ [][NextQueue]_vars

\* sequence p is a prefix of sequence s
IsPrefix(p, s) == Len(p) <= Len(s) /\ \A i \in 1..Len(p) : s[i] = p[i]

\* C21: the TX queue never holds more than 4 packets; a reception that finds
\* it full leaves it unchanged; a reception leaves the queued packets in place
\* and adds at most one at the tail; a tick returns the queued packets in
\* enqueue order, ahead of what it sends itself, and leaves the queue empty
C21_BoundedFifo ==
    /\ Len(node["R1"].tx_queue) <= 4
    /\ last.op = "rx" =>
           /\ IsPrefix(last.pre.tx_queue, node["R1"].tx_queue)
           /\ Len(node["R1"].tx_queue) <= Len(last.pre.tx_queue) + 1
           /\ Len(last.pre.tx_queue) = 4 => node["R1"].tx_queue = last.pre.tx_queue
    /\ last.op = "tick" =>
           /\ IsPrefix(last.pre.tx_queue, last.out)
           /\ Len(last.out) <= 4
           /\ node["R1"].tx_queue = <<>>

\* a tick has returned four queued packets after a fifth was refused
C21_Witness ==
    /\ last.op = "tick"
    /\ Len(last.out) = 4
    /\ last.out = last.pre.tx_queue
    /\ last.pre.stats.fwd_count - Len(last.pre.tx_queue) > 0
    /\ \A i, j \in 1..4 : i # j => last.out[i] # last.out[j]

(***************************************************************************)
(* SpecTxPower: the adaptive TX power of repeater R1 under neighbour        *)
(* samples of R2 and X, evaluations, and the controller switched on or off  *)
(***************************************************************************)
\* the SNR values of the samples, in quarter dB
TxSnrs == {60, 41, 40, 0, 0 - 20, 0 - 21}

\* the return value of evaluate_adaptive_tx_power
adaptive_tx_result(nd) ==
    IF evaluate_adaptive_tx_power(nd).current_tx_power # nd.current_tx_power
    THEN evaluate_adaptive_tx_power(nd).current_tx_power
    ELSE 0 - 1

\* SimRepeater._update_neighbour(hash, rssi, snr)
TxSample ==
    \E id \in {"R2", "X"}, snr \in TxSnrs :
        /\ node' = [node EXCEPT !["R1"].neighbours =
                       _update_neighbour(@, Hash[id], LINK_RSSI, snr, clock)]
        /\ last' = [op |-> "_update_neighbour", n |-> "R1", now |-> clock,
                    pre |-> node["R1"]]
        /\ UNCHANGED <<clock, air, hist>>

\* SimRepeater.evaluate_adaptive_tx_power()
TxEvaluate ==
    /\ node' = [node EXCEPT !["R1"] = evaluate_adaptive_tx_power(@)]
    /\ last' = [op |-> "evaluate_adaptive_tx_power", n |-> "R1", now |-> clock,
                pre |-> node["R1"], out |-> adaptive_tx_result(node["R1"])]
    /\ UNCHANGED <<clock, air, hist>>

\* adaptive_tx_enabled set or cleared
TxEnable ==
    \E on \in BOOLEAN :
        /\ node' = [node EXCEPT !["R1"].adaptive_tx_enabled = on]
        /\ last' = [op |-> "adaptive_tx_enabled", n |-> "R1", now |-> clock,
                    pre |-> node["R1"]]
        /\ UNCHANGED <<clock, air, hist>>

NextTxPower == TxSample \/ TxEvaluate \/ TxEnable

SpecTxPower == InitMboxNode /\ [][NextTxPower]_vars

\* the last step was an evaluation
Evaluated == last.op = "evaluate_adaptive_tx_power"

\* the controller was on and had a neighbour when the last evaluation started
TxActive == last.pre.adaptive_tx_enabled /\ Len(last.pre.neighbours) > 0

\* what the last evaluation did, given whether it had to lower or to raise
TxOutcome(lower, raise) ==
    LET old == last.pre.current_tx_power
        new == node["R1"].current_tx_power
    IN  /\ lower => new = (IF old - 2 < 5 THEN 5 ELSE old - 2)
        /\ raise => new = (IF old + 2 > 14 THEN 14 ELSE old + 2)
        /\ (~lower /\ ~raise) => new = old
        /\ last.out = (IF new # old THEN new ELSE 0 - 1)

\* C22 as stated: the power stays within [5, 14]; an evaluation lowers it iff
\* the controller is on, a neighbour exists and the mean SNR is above 40, and
\* raises it iff the mean is below -20
C22_AsStated ==
    /\ 5 <= node["R1"].current_tx_power /\ node["R1"].current_tx_power <= 14
    /\ Evaluated =>
           TxOutcome(TxActive /\ SumSnr(last.pre.neighbours, 1)
                                     > 40 * Len(last.pre.neighbours),
                     TxActive /\ SumSnr(last.pre.neighbours, 1)
                                     < (0 - 20) * Len(last.pre.neighbours))

\* C22: the power stays within [5, 14]; an evaluation lowers it by 2, floored
\* at 5, iff the controller is on, a neighbour exists and the mean SNR rounded
\* down to an integer is above 40 (sum >= 41 n), raises it by 2, capped at 14,
\* iff that mean is below -20, and leaves it unchanged otherwise; it returns
\* the new power when the power changed and -1 otherwise
C22_FlooredMean ==
    /\ 5 <= node["R1"].current_tx_power /\ node["R1"].current_tx_power <= 14
    /\ Evaluated =>
           TxOutcome(TxActive /\ SumSnr(last.pre.neighbours, 1)
                                     >= 41 * Len(last.pre.neighbours),
                     TxActive /\ SumSnr(last.pre.neighbours, 1)
                                     < (0 - 20) * Len(last.pre.neighbours))

\* an evaluation with a mean of 40.5 has left the power where it was
C22_Witness ==
    /\ Evaluated
    /\ TxActive
    /\ Len(last.pre.neighbours) = 2
    /\ SumSnr(last.pre.neighbours, 1) = 81
    /\ last.out = 0 - 1
    /\ node["R1"].current_tx_power = 8

(***************************************************************************)
(* SpecReply: one node, a repeater R1 or a companion C1, receiving PLAIN    *)
(* frames of peer S with every marker, addressed to it or to D, or short    *)
(***************************************************************************)
\* receptions in one behaviour
ReplyMaxRx == 3

\* a flood PLAIN frame of S with the given payload
PlainOfS(payload) ==
    MkPacket(make_header(MC_ROUTE_FLOOD, MC_PAYLOAD_PLAIN, MC_PAYLOAD_VER_1),
             <<Hash.S>>, payload)

\* the frames node n receives: DP of exactly 4 bytes, DT with a text, PO and TR
\* for the node, DP and DT for D, and a DP cut to 3 bytes
ReplyFrames(n) ==
    {PlainOfS(<<Hash[n], Hash.S, 68, 80>>),
     PlainOfS(<<Hash[n], Hash.S, 68, 84, 35, 49>>),
     PlainOfS(<<Hash[n], Hash.S, 80, 79, 83>>),
     PlainOfS(<<Hash[n], Hash.S, 84, 82, 83>>),
     PlainOfS(<<Hash.D, Hash.S, 68, 80>>),
     PlainOfS(<<Hash.D, Hash.S, 68, 84>>),
     PlainOfS(<<Hash[n], Hash.S, 68>>)}

InitReply ==
    /\ clock = 0
    /\ \E id \in {"R1", "C1"} :
           /\ node = [n \in {id} |->
                         IF id = "R1" THEN Repeater(n) ELSE Companion(n)]
           /\ hist = [n \in {id} |-> <<>>]
    /\ air = {}
    /\ last = NoLast

ReplyRx ==
    \E n \in DOMAIN node : \E f \in ReplyFrames(n) :
        node[n].stats.rx_count < ReplyMaxRx /\ Rx(n, f, LINK_RSSI, LINK_SNR)

ReplyTick ==
    \E n \in DOMAIN node : node[n].tx_queue # <<>> /\ Tick(n, {})

NextReply == ReplyRx \/ ReplyTick

SpecReply == InitReply /\ [][NextReply]_vars

\* p is a reply of node nd with marker <<m1, m2>> to the sender of request f
IsReply(nd, p, f, m1, m2) ==
    /\ get_route_type(p.header) = MC_ROUTE_FLOOD
    /\ get_payload_type(p.header) = MC_PAYLOAD_PLAIN
    /\ p.path = <<nd.identity.hash>>
    /\ Len(p.payload) >= 4
    /\ p.payload[1] = f.payload[2]
    /\ p.payload[2] = nd.identity.hash
    /\ p.payload[3] = m1 /\ p.payload[4] = m2

\* a PO or TR packet of node nd itself, whatever its dest byte
IsAnyReply(nd, p) ==
    /\ Len(p.path) = 1 /\ p.path[1] = nd.identity.hash
    /\ Len(p.payload) >= 4
    /\ p.payload[2] = nd.identity.hash
    /\ <<p.payload[3], p.payload[4]>> \in {<<80, 79>>, <<84, 82>>}

\* the last reception was a request with marker <<68, m>> for the node itself
RequestForMe(m) ==
    /\ last.op = "rx"
    /\ Len(last.pkt.payload) >= 4
    /\ last.pkt.payload[1] = last.pre.identity.hash
    /\ last.pkt.payload[3] = 68 /\ last.pkt.payload[4] = m

\* exactly one packet of QueuedBy is a reply, and it has the stated form
OneReply(m1, m2) ==
    /\ \E i \in 1..Len(QueuedBy) :
           IsReply(last.pre, QueuedBy[i], last.pkt, m1, m2)
    /\ Cardinality({i \in 1..Len(QueuedBy) :
                       IsAnyReply(last.pre, QueuedBy[i])}) = 1

NoReply == \A i \in 1..Len(QueuedBy) : ~IsAnyReply(last.pre, QueuedBy[i])

\* C24 as stated: every DP (DT) for the node enqueues exactly one PO (TR)
C24_AsStated ==
    /\ RequestForMe(80) => OneReply(80, 79)
    /\ RequestForMe(84) => OneReply(84, 82)
    /\ (last.op = "rx" /\ ~RequestForMe(80) /\ ~RequestForMe(84)) => NoReply

\* C24: a node that receives a PLAIN payload of length >= 4 with marker DP
\* (DT) and its own fingerprint as dest byte, while its TX queue holds fewer
\* than 4 packets, enqueues exactly one reply with marker PO (TR), dest byte
\* the request's src byte, src byte its own fingerprint, route flood and
\* path [own fingerprint]; with a full queue the reply is dropped; a payload
\* shorter than 4 bytes, with another dest, or with marker PO / TR produces
\* no reply
C24_ReplyUnlessFull ==
    /\ (RequestForMe(80) /\ Len(last.pre.tx_queue) < MC_TX_QUEUE_SIZE)
           => OneReply(80, 79)
    /\ (RequestForMe(84) /\ Len(last.pre.tx_queue) < MC_TX_QUEUE_SIZE)
           => OneReply(84, 82)
    /\ (last.op = "rx" /\ ~(RequestForMe(80) /\ Len(last.pre.tx_queue) < MC_TX_QUEUE_SIZE)
                       /\ ~(RequestForMe(84) /\ Len(last.pre.tx_queue) < MC_TX_QUEUE_SIZE))
           => NoReply

\* a repeater has answered a trace while a pong was still waiting, and has
\* queued the forwarded copy of the trace behind its reply
C24_Witness ==
    /\ RequestForMe(84)
    /\ last.pre.role = "repeater"
    /\ Len(last.pre.tx_queue) = 2
    /\ Len(QueuedBy) = 2
    /\ IsReply(last.pre, QueuedBy[1], last.pkt, 84, 82)
    /\ QueuedBy[2].path = <<Hash.S, Hash.R1>>

(***************************************************************************)
(* SpecRssi: repeater R1 receiving flood and direct frames at signal levels *)
(* just below, at and above MC_MIN_RSSI_FORWARD                             *)
(***************************************************************************)
\* receptions in one behaviour
RssiMaxRx == 3

\* flood and direct frames that pass the structural checks, a direct frame for
\* another next hop and a flood frame that has visited R1
RssiFrames == {FloodPing, DirectChain, DirectOther, FloodLoop}

RssiLevels == {MC_MIN_RSSI_FORWARD - 1, MC_MIN_RSSI_FORWARD, LINK_RSSI}

RssiRx ==
    \E f \in RssiFrames, rssi \in RssiLevels :
        node["R1"].stats.rx_count < RssiMaxRx /\ Rx("R1", f, rssi, LINK_SNR)

RssiTick == node["R1"].tx_queue # <<>> /\ Tick("R1", {})

NextRssi == RssiRx \/ RssiTick

SpecRssi == InitMboxNode /\ [][NextRssi]_vars

\* the checks other than the RSSI gate admit the last received frame: at the
\* signal level of a good link it passes _should_forward, and the rate limiter
\* and the circuit breaker let it pass
OtherChecksPass ==
    /\ _should_forward(last.pre, StampRx(last.pkt, LINK_RSSI, last.snr, last.now))
    /\ RateLimiter_allows(last.pre.forward_limiter, last.now \div 1000)
    /\ ~(/\ is_direct(last.pkt)
         /\ Len(last.pkt.path) >= 2
         /\ _is_circuit_open(last.pre.neighbours, last.pkt.path[2]))

\* C25: a frame received with RSSI < -120 dBm is never forwarded, flood or
\* direct: no copy is enqueued and the forward counter is unchanged; a frame
\* received with RSSI exactly -120 dBm that passes the other admission checks
\* is forwarded: the forward counter goes up and, the queue having room, the
\* rewritten copy is enqueued
C25_RssiGate ==
    /\ (RepeaterRx /\ last.rssi < 0 - 120) => (~Forwarded /\ NoCopyQueued)
    /\ (RepeaterRx /\ last.rssi = 0 - 120 /\ OtherChecksPass) =>
           /\ Forwarded
           /\ Len(last.pre.tx_queue) < MC_TX_QUEUE_SIZE =>
                  (QueuedBy # <<>> /\ QueuedBy[Len(QueuedBy)] = ExpectedCopy)

\* a direct frame for R1 as next hop was forwarded at exactly -120 dBm, into
\* an empty queue, after an earlier reception that was not forwarded
C25_Witness ==
    /\ RepeaterRx
    /\ last.rssi = 0 - 120
    /\ is_direct(last.pkt)
    /\ Forwarded
    /\ QueuedBy = <<ExpectedCopy>>
    /\ last.pre.stats.rx_count > 0
    /\ last.pre.stats.fwd_count = 0
    /\ last.pre.tx_queue = <<>>

(***************************************************************************)
(* SpecCodec: MCPacket.serialize and MCPacket.deserialize applied to        *)
(* packets with paths and payloads around the size limits and to raw bytes  *)
(***************************************************************************)
\* the byte patterns that fill paths and payloads
CodecSeeds == 2

\* len bytes, the i-th being (i * seed + seed) mod 256
Pattern(len, seed) == [i \in 1..len |-> (i * seed + seed) % 256]

CodecPathLens == {0, 1, MC_MAX_PATH_SIZE - 1, MC_MAX_PATH_SIZE, MC_MAX_PATH_SIZE + 1}

CodecPayloadLens == {0, 1, MC_MAX_PAYLOAD_SIZE - 1, MC_MAX_PAYLOAD_SIZE,
                     MC_MAX_PAYLOAD_SIZE + 1}

CodecPackets ==
    {MkPacket(h, Pattern(pl, s), Pattern(yl, s + 2)) :
        h \in {0, make_header(MC_ROUTE_FLOOD, MC_PAYLOAD_PLAIN, MC_PAYLOAD_VER_1), 255},
        pl \in CodecPathLens, yl \in CodecPayloadLens, s \in 1..CodecSeeds}

\* byte strings as a radio can hand them over: too short, a declared path
\* length above the limit, beyond the remaining bytes, or exactly at the limit
CodecRaw ==
    {<<>>, <<6>>, <<6, 0>>, <<6, 3, 1, 2>>, <<6, 1>>,
     <<6, MC_MAX_PATH_SIZE + 1>> \o Pattern(MC_MAX_PATH_SIZE + 1, 1),
     <<6, 255>> \o Pattern(255 + 2, 1),
     <<6, MC_MAX_PATH_SIZE>> \o Pattern(MC_MAX_PATH_SIZE - 1, 1),
     <<6, MC_MAX_PATH_SIZE>> \o Pattern(MC_MAX_PATH_SIZE, 1),
     <<6, 2>> \o Pattern(2 + MC_MAX_PAYLOAD_SIZE + 3, 1)}

\* the codec's state: the packet at hand and the bytes at hand
InitCodec ==
    /\ clock = 0
    /\ \E p \in CodecPackets : node = [n \in {"P"} |-> [pkt |-> p, data |-> <<>>]]
    /\ air = {}
    /\ hist = [n \in {"P"} |-> <<>>]
    /\ last = NoLast

\* data = pkt.serialize()
CodecSerialize ==
    /\ node["P"].pkt # NoPacket
    /\ node' = [node EXCEPT !["P"].data = serialize(node["P"].pkt)]
    /\ last' = [op |-> "serialize", pkt |-> node["P"].pkt]
    /\ UNCHANGED <<clock, air, hist>>

\* pkt = MCPacket.deserialize(data); last keeps the packet the bytes came from
CodecDeserialize ==
    /\ last.op \in {"serialize", "raw"}
    /\ node' = [node EXCEPT !["P"].pkt = deserialize(node["P"].data)]
    /\ last' = [op |-> "deserialize", pkt |-> last.pkt, data |-> node["P"].data]
    /\ UNCHANGED <<clock, air, hist>>

\* bytes arrive that no serialize of the model produced
CodecReceive ==
    \E d \in CodecRaw :
        /\ last.op = "none"
        /\ node' = [node EXCEPT !["P"].data = d]
        /\ last' = [op |-> "raw", pkt |-> NoPacket]
        /\ UNCHANGED <<clock, air, hist>>

NextCodec == CodecSerialize \/ CodecDeserialize \/ CodecReceive

SpecCodec == InitCodec /\ [][NextCodec]_vars

\* the bytes of d that follow its header, length byte and k path bytes
PayloadBytes(d, k) == [i \in 1..(Len(d) - 2 - k) |-> d[2 + k + i]]

\* C26: deserialize(serialize(p)) equals p on header, path and payload for
\* every packet with |path| <= 64 and |payload| <= 180; deserialize rejects
\* input shorter than 2 bytes, a declared path length of 65 or more and one
\* exceeding the remaining bytes, accepts a declared path length of 64, and
\* keeps the first 180 payload bytes of a longer payload
C26_RoundTrip ==
    last.op = "deserialize" =>
        LET d == last.data
            out == node["P"].pkt
        IN  /\ (/\ last.pkt # NoPacket
                /\ Len(last.pkt.path) <= 64
                /\ Len(last.pkt.payload) <= 180) =>
                   (/\ out # NoPacket
                    /\ out.header = last.pkt.header
                    /\ out.path = last.pkt.path
                    /\ out.payload = last.pkt.payload)
            /\ Len(d) < 2 => out = NoPacket
            /\ (Len(d) >= 2 /\ d[2] >= 65) => out = NoPacket
            /\ (Len(d) >= 2 /\ d[2] > Len(d) - 2) => out = NoPacket
            /\ (Len(d) >= 2 + 64 /\ d[2] = 64) =>
                   (out # NoPacket /\ out.path = [i \in 1..64 |-> d[2 + i]])
            /\ (Len(d) >= 2 /\ d[2] <= 64 /\ Len(d) - 2 - d[2] > 180) =>
                   (/\ out # NoPacket
                    /\ out.payload = [i \in 1..180 |-> PayloadBytes(d, d[2])[i]])

\* a packet with 64 path bytes and 180 payload bytes came back from its bytes
C26_Witness ==
    /\ last.op = "deserialize"
    /\ last.pkt # NoPacket
    /\ Len(last.pkt.path) = 64
    /\ Len(last.pkt.payload) = 180
    /\ Len(last.data) = 246
    /\ node["P"].pkt = last.pkt

(***************************************************************************)
(* SpecCli: the CLI commands "ping <arg>" and "trace <arg>" on a repeater   *)
(* R1 or a companion C1, with arguments that are hex, zero or not hex       *)
(***************************************************************************)
\* commands in one behaviour
CliMaxCmds == 2

\* the value of one character as a hex digit, -1 for any other character
HexValue(c) ==
    IF 48 <= c /\ c <= 57 THEN c - 48
    ELSE IF 65 <= c /\ c <= 70 THEN c - 55
    ELSE IF 97 <= c /\ c <= 102 THEN c - 87
    ELSE 0 - 1

RECURSIVE ParseHex(_)
\* int(target, 16) for a nonempty string of letters and digits (no sign, no
\* prefix, no underscore): its value, or -1 where Python raises ValueError
ParseHex(s) ==
    IF Len(s) = 1 THEN HexValue(s[1])
    ELSE LET head == ParseHex(SubSeq(s, 1, Len(s) - 1))
             d == HexValue(s[Len(s)])
         IN  IF head < 0 \/ d < 0 THEN 0 - 1 ELSE 16 * head + d

\* f"{TAG} {h:02X}"
HashReply(tag, h) == <<tag, HexDigit(h \div 16), HexDigit(h % 16)>>

\* SimRepeater._cmd_ping and _cmd_trace: the node afterwards
_cmd_ping(nd, command, target) ==
    IF ParseHex(target) < 0 THEN nd
    ELSE IF ParseHex(target) % 256 = 0 THEN nd
    ELSE IF command = "ping"
    THEN send_directed_ping(nd, ParseHex(target) % 256)
    ELSE send_directed_trace(nd, ParseHex(target) % 256)

\* SimRepeater._cmd_ping and _cmd_trace: the string returned
_cmd_ping_result(command, target) ==
    IF ParseHex(target) < 0 THEN <<"[E] Invalid hash">>
    ELSE IF ParseHex(target) % 256 = 0 THEN <<"[E] Invalid hash 0">>
    ELSE HashReply(IF command = "ping" THEN "[P] ->" ELSE "[P] ~>",
                   ParseHex(target) % 256)

\* SimCompanion.process_command, branches "ping" and "trace": the node afterwards
companion_ping(nd, command, target) ==
    IF ParseHex(target) < 0 THEN nd
    ELSE IF command = "ping"
    THEN send_directed_ping(nd, ParseHex(target) % 256)
    ELSE send_directed_trace(nd, ParseHex(target) % 256)

\* SimCompanion.process_command, branches "ping" and "trace": the string returned
companion_ping_result(command, target) ==
    IF ParseHex(target) < 0 THEN <<"[E] Invalid hash">>
    ELSE HashReply(IF command = "ping" THEN "[P] ->" ELSE "[P] ~>",
                   ParseHex(target) % 256)

\* process_command(f"{command} {target}") for command "ping" or "trace"
process_command(nd, command, target) ==
    IF nd.role = "repeater"
    THEN _cmd_ping([nd EXCEPT !.log = <<>>], command, target)
    ELSE companion_ping([nd EXCEPT !.log = <<>>], command, target)

process_command_result(nd, command, target) ==
    IF nd.role = "repeater"
    THEN _cmd_ping_result(command, target)
    ELSE companion_ping_result(command, target)

\* the arguments "0", "00", "100", "A3", "a3", "FF", "zz" and "1g"
CliZero == {<<48>>, <<48, 48>>, <<49, 48, 48>>}

CliNonHex == {<<122, 122>>, <<49, 103>>}

CliTargets == CliZero \cup CliNonHex \cup {<<65, 51>>, <<97, 51>>, <<70, 70>>}

\* hist keeps the arguments of the commands given so far
CliCmd ==
    \E n \in DOMAIN node, c \in {"ping", "trace"}, t \in CliTargets :
        /\ Len(hist[n]) < CliMaxCmds
        /\ node' = [node EXCEPT ![n] = process_command(@, c, t)]
        /\ hist' = [hist EXCEPT ![n] = Append(@, t)]
        /\ last' = [op |-> "process_command", n |-> n, command |-> c,
                    target |-> t, now |-> clock, pre |-> node[n],
                    out |-> process_command_result(node[n], c, t)]
        /\ UNCHANGED <<clock, air>>

CliTick ==
    \E n \in DOMAIN node :
        /\ node[n].tx_queue # <<>>
        /\ node' = [node EXCEPT ![n] = tick(@, clock)]
        /\ Transmit(n, {}, tick_out(node[n], clock))
        /\ UNCHANGED <<clock, hist>>

NextCli == CliCmd \/ CliTick

SpecCli == InitReply /\ [][NextCli]_vars

\* C27: on a repeater and on a companion, ping or trace with an argument
\* whose low byte is 0, or that is not hex, returns an error string, enqueues
\* no packet and leaves the ping counter and the TX counter unchanged
C27_ZeroTargetRejected ==
    (last.op = "process_command" /\ last.target \in CliZero \cup CliNonHex) =>
        /\ last.out \in {<<"[E] Invalid hash">>, <<"[E] Invalid hash 0">>}
        /\ node[last.n].tx_queue = last.pre.tx_queue
        /\ node[last.n].ping_counter = last.pre.ping_counter
        /\ node[last.n].stats.tx_count = last.pre.stats.tx_count

\* the same restricted to the repeater role, where it holds
RepeaterRejectsZero ==
    (last.op = "process_command" /\ last.pre.role = "repeater") =>
        C27_ZeroTargetRejected

(***************************************************************************)
(* SpecAdvertParse: parse_advert applied to payloads of 100 and 101 bytes   *)
(* with every value of the flags byte                                       *)
(***************************************************************************)
\* the payloads: public key, timestamp and signature bytes from two patterns,
\* then the flags byte; or the first 100 bytes only
AdvertSeeds == 2

AdvertPayloads ==
    {Pattern(ADVERT_FLAGS_OFFSET, s) \o <<flags>> : s \in 1..AdvertSeeds, flags \in 0..255}
    \cup {Pattern(ADVERT_FLAGS_OFFSET, s) : s \in 1..AdvertSeeds}

InitAdvertParse ==
    /\ clock = 0
    /\ \E p \in AdvertPayloads : node = [n \in {"A"} |-> [payload |-> p]]
    /\ air = {}
    /\ hist = [n \in {"A"} |-> <<>>]
    /\ last = NoLast

\* info = parse_advert(payload)
ParseStep ==
    /\ last.op = "none"
    /\ last' = [op |-> "parse_advert", payload |-> node["A"].payload,
                out |-> parse_advert(node["A"].payload)]
    /\ UNCHANGED <<clock, node, air, hist>>

NextAdvertParse == ParseStep

SpecAdvertParse == InitAdvertParse /\ [][NextAdvertParse]_vars

\* C28: parse_advert on a payload of exactly 101 bytes succeeds and yields no
\* location and an empty name, for every value of the flags byte at offset
\* 100; a payload shorter than 101 bytes is rejected
C28_MinimalAdvert ==
    last.op = "parse_advert" =>
        /\ Len(last.payload) = 101 =>
               /\ last.out # NoAdvert
               /\ ~last.out.has_location
               /\ last.out.name = <<>>
        /\ Len(last.payload) < 101 => last.out = NoAdvert

\* what parse_advert does on 101 bytes: with well-formed flags the name is the
\* default "Node-XX" and has_location is the flag bit, no coordinates read;
\* with malformed flags the flags byte itself is taken as a one-byte name
ParsedAt101 ==
    (last.op = "parse_advert" /\ Len(last.payload) = 101) =>
        LET flags == last.payload[101]
        IN  /\ last.out # NoAdvert
            /\ last.out.latitude = <<>> /\ last.out.longitude = <<>>
            /\ IF flags >= 128 /\ flags % 16 <= 4
               THEN /\ last.out.name = DefaultName(last.payload[1])
                    /\ last.out.has_location = ((flags \div 16) % 2 = 1)
               ELSE /\ last.out.name = <<flags>>
                    /\ ~last.out.has_location

(***************************************************************************)
(* The self-echo invariant and the forward counter, on the specifications   *)
(* above                                                                    *)
(***************************************************************************)
\* every packet waiting in the queue of n has had its id inserted in n's cache
QueuedIdsInserted(n) ==
    \A i \in 1..Len(node[n].tx_queue) :
        get_packet_id(node[n].tx_queue[i]) \in SeenIds(n)

\* C29: for every packet placed in a node's TX queue (originated, forwarded
\* copy after path rewriting, or mailbox delivery) the id of that enqueued
\* packet has been inserted into the node's dedup cache before the enqueue
C29_SelfEcho == \A n \in DOMAIN node : QueuedIdsInserted(n)

\* the same for a node that only originates (SpecCompanion), where it holds
OriginatedIdsInserted ==
    \A n \in DOMAIN node : node[n].role = "companion" => QueuedIdsInserted(n)

\* C30: the forward counter goes up only when the TX queue accepts the
\* rewritten packet: on every reception of a repeater, fwd_count goes up by
\* one exactly when the rewritten copy was appended to the queue, and with 4
\* packets already queued the forward is refused and fwd_count is unchanged
C30_CountsAcceptedOnly ==
    RepeaterRx =>
        /\ node[last.n].stats.fwd_count - last.pre.stats.fwd_count =
               Cardinality({i \in 1..Len(QueuedBy) : QueuedBy[i] = ExpectedCopy})
        /\ Len(last.pre.tx_queue) = MC_TX_QUEUE_SIZE =>
               /\ node[last.n].tx_queue = last.pre.tx_queue
               /\ node[last.n].stats.fwd_count = last.pre.stats.fwd_count

\* the same while the queue has room, where it holds
CountsWhileRoom ==
    (RepeaterRx /\ Len(last.pre.tx_queue) < MC_TX_QUEUE_SIZE) =>
        node[last.n].stats.fwd_count - last.pre.stats.fwd_count =
            Cardinality({i \in 1..Len(QueuedBy) : QueuedBy[i] = ExpectedCopy})

(***************************************************************************)
(* SpecLinear: three repeaters in a line, R1 - R2 - X, R1 pinging X         *)
(***************************************************************************)
\* pings R1 issues in one behaviour
LinMaxPings == 2

\* RadioEnvironment.set_link("R1", "R2") and set_link("R2", "X")
LinLinks == [R1 |-> {"R2"}, R2 |-> {"R1", "X"}, X |-> {"R2"}]

InitLinear ==
    /\ clock = 0
    /\ node = [n \in {"R1", "R2", "X"} |-> Repeater(n)]
    /\ air = {}
    /\ hist = [n \in {"R1", "R2", "X"} |-> <<>>]
    /\ last = NoLast

\* some node has packets waiting for its next tick
LinQueued == \E n \in DOMAIN node : node[n].tx_queue # <<>>

\* inject_command("R1", "ping AA"), given while the mesh is silent
LinPing ==
    /\ node["R1"].ping_counter < LinMaxPings
    /\ air = {} /\ ~LinQueued
    /\ Cmd("R1", "ping", Hash.X)

LinTick == \E n \in DOMAIN node : node[n].tx_queue # <<>> /\ Tick(n, LinLinks[n])

LinDeliver == \E e \in air : Deliver(e)

\* default airtime of radio_env.py
DEFAULT_AIRTIME_MS == 200

\* SimRunner.run_step, "Advance clock", once and while the mesh is silent
LinAdvance == clock = 0 /\ air = {} /\ ~LinQueued /\ Advance(DEFAULT_AIRTIME_MS)

NextLinear == LinPing \/ LinTick \/ LinDeliver \/ LinAdvance

SpecLinear == InitLinear /\ [][NextLinear]_vars

\* SimRunner.run_step advances the clock, ticks every node and then the radio
\* in every step: a node with a waiting packet is eventually ticked and a
\* frame on the air is eventually delivered.  LinQueued is the enabling
\* condition of <<LinTick>>_vars and air # {} that of <<LinDeliver>>_vars, so
\* the first two conjuncts are weak fairness of LinTick and of LinDeliver,
\* written without ENABLED
LinFair ==
    /\ []<>(~LinQueued) \/ []<><<LinTick>>_vars
    /\ []<>(air = {}) \/ []<><<LinDeliver>>_vars
    /\ WF_vars(LinAdvance)

SpecLinearLive == SpecLinear /\ LinFair

\* R1 has just issued a directed ping to X's fingerprint
PingIssued ==
    /\ last.op = "cmd"
    /\ last.n = "R1"
    /\ node["R1"].tx_queue # <<>>
    /\ Last(node["R1"].tx_queue).payload[1] = Hash.X

\* R1 has just received a PO addressed to it with X's fingerprint as src
PongAtA ==
    /\ last.op = "rx"
    /\ last.n = "R1"
    /\ Len(last.pkt.payload) >= 4
    /\ last.pkt.payload[1] = Hash.R1
    /\ last.pkt.payload[2] = Hash.X
    /\ last.pkt.payload[3] = 80 /\ last.pkt.payload[4] = 79

\* C23: in the line R1 - R2 - X with fair ticks and deliveries, after R1
\* issues a directed ping to X's fingerprint, eventually R2's forward counter
\* is >= 1 and R1 receives a PO addressed to R1 with src = X's fingerprint
C23_PingAnswered ==
    PingIssued ~> (node["R2"].stats.fwd_count >= 1 /\ PongAtA)

\* the same for the first ping of R1 only, which holds
FirstPingAnswered ==
    (PingIssued /\ node["R1"].ping_counter = 1)
        ~> (node["R2"].stats.fwd_count >= 1 /\ PongAtA)

\* the PO of X has reached R1 over R2, which has forwarded the ping and the PO
C23_Witness ==
    /\ PongAtA
    /\ last.pkt.path = <<Hash.X, Hash.R2>>
    /\ node["R2"].stats.fwd_count >= 2
    /\ node["X"].stats.tx_count = 1

\* R2 has dropped X's reply to the second ping as a duplicate: the reply has
\* the bytes of the first reply, whose id R2's dedup cache still holds
SecondPongDropped ==
    /\ last.op = "rx"
    /\ last.n = "R2"
    /\ last.pkt.path = <<Hash.X>>
    /\ Len(last.pkt.payload) >= 4
    /\ last.pkt.payload[3] = 80 /\ last.pkt.payload[4] = 79
    /\ node["R1"].ping_counter = 2
    /\ node["X"].stats.tx_count = 2
    /\ ~Forwarded
    /\ PacketIdCache_has(last.pre.packet_cache, get_packet_id(Received))

(***************************************************************************)
(* The half-open breaker, on SpecBreaker                                    *)
(***************************************************************************)
\* C31: a sample of a neighbour whose breaker is half-open resolves it: to
\* closed on SNR >= -40, to open on SNR < -40; the breaker never stays
\* half-open across a sample
C31_HalfOpenResolved ==
    \A h \in {Hash.R2, Hash.X} :
        (SampleOf(h) /\ CbStateOf(last.pre.neighbours, h) = CB_STATE_HALF_OPEN)
        => CbStateOf(node[last.n].neighbours, h) =
               (IF last.snr >= 0 - 40 THEN CB_STATE_CLOSED ELSE CB_STATE_OPEN)

\* the good half of it, which holds: a sample with SNR >= -40 closes a
\* half-open breaker
HalfOpenClosedByGoodSample ==
    \A h \in {Hash.R2, Hash.X} :
        (/\ SampleOf(h)
         /\ CbStateOf(last.pre.neighbours, h) = CB_STATE_HALF_OPEN
         /\ last.snr >= 0 - 40)
        => CbStateOf(node[last.n].neighbours, h) = CB_STATE_CLOSED

\* a sample below the threshold has left the breaker of R2 half-open
HalfOpenKept ==
    /\ SampleOf(Hash.R2)
    /\ last.snr < 0 - 40
    /\ CbStateOf(last.pre.neighbours, Hash.R2) = CB_STATE_HALF_OPEN
    /\ CbStateOf(node["R1"].neighbours, Hash.R2) = CB_STATE_HALF_OPEN

(***************************************************************************)
(* SpecTriangle: three repeaters R1, R2, X, each in range of the other two, *)
(* R1 originating a flood frame: a ping for the absent D                    *)
(***************************************************************************)
\* frames R1 originates in one behaviour
TriMaxCmds == 1

\* set_link("R1", "R2"), set_link("R1", "X"), set_link("R2", "X")
TriLinks == [R1 |-> {"R2", "X"}, R2 |-> {"R1", "X"}, X |-> {"R1", "R2"}]

\* inject_command("R1", "ping DD"), given while the mesh is silent
TriCmd ==
    /\ node["R1"].stats.tx_count < TriMaxCmds
    /\ air = {} /\ ~LinQueued
    /\ Cmd("R1", "ping", Hash.D)

TriTick == \E n \in DOMAIN node : node[n].tx_queue # <<>> /\ Tick(n, TriLinks[n])

NextTriangle == TriCmd \/ TriTick \/ LinDeliver

SpecTriangle == InitLinear /\ [][NextTriangle]_vars

\* C32: every repeater forwards a given originated frame at most once, also
\* when copies reach it over different paths: with R1 the only originator, no
\* forward counter exceeds the number of frames R1 has originated
C32_ForwardOnce ==
    \A n \in DOMAIN node : node[n].stats.fwd_count <= node["R1"].stats.tx_count

\* R2 has forwarded the copy of R1's ping that came over X, after forwarding
\* the ping as it came from R1
SecondForward ==
    /\ RepeaterRx
    /\ last.n = "R2"
    /\ last.pkt.path = <<Hash.R1, Hash.X>>
    /\ last.pkt.payload[1] = Hash.D
    /\ last.pre.stats.fwd_count = 1
    /\ node["R2"].stats.fwd_count = 2

(***************************************************************************)
(* SpecBeacon: repeater R1 synchronized and resynchronized by adverts of X, *)
(* flood frames filling its queue, the clock, and ticks due or not          *)
(***************************************************************************)
\* receptions and clock advances in one behaviour
BcnMaxRx == 4
BcnMaxAdvances == 2

BcnAdvert ==
    \E t \in PeerTimes :
        /\ node["R1"].stats.rx_count < BcnMaxRx
        /\ Rx("R1", PeerAdvertFrame(t, <<>>), LINK_RSSI, LINK_SNR)

\* frames that arrive while packets wait for the next tick
BcnFrame ==
    /\ node["R1"].stats.rx_count < BcnMaxRx
    /\ node["R1"].tx_queue # <<>>
    /\ Rx("R1", RlFrame, LINK_RSSI, LINK_SNR)

\* a tick, due or not; a second tick at once would find nothing to do
BcnTick == last.op # "tick" /\ Tick("R1", {})

\* the clock moves on after a reception or a tick
BcnAdvance ==
    \E ms \in {ADVERT_AFTER_SYNC_MS, DEFAULT_ADVERT_INTERVAL_MS} :
        Advances < BcnMaxAdvances /\ last.op # "none" /\ Advance(ms)

NextBeacon == BcnAdvert \/ BcnFrame \/ BcnTick \/ BcnAdvance

SpecBeacon == InitMboxNode /\ [][NextBeacon]_vars

\* the adverts of its own that the last tick of the node handed to the radio
OwnAdvertsOut ==
    Cardinality({i \in 1..Len(last.out) : OwnAdvert(last.pre, last.out[i])})

\* (a) the post-sync timer was set and had elapsed when the last tick started
TimerElapsed ==
    last.pre.pending_advert_time > 0 /\ last.now >= last.pre.pending_advert_time

\* (b) the node was synchronized and its last advert 300,000 ms or more ago
BeaconDue ==
    /\ last.pre.time_sync.synchronized
    /\ last.now - last.pre.last_advert_time >= 300000

\* the last reception was an advert that synchronized or resynchronized
AdvertSynced ==
    /\ last.op = "rx"
    /\ get_payload_type(last.pkt.header) = MC_PAYLOAD_ADVERT
    /\ sync_result(last.pre.time_sync, extract_timestamp(last.pkt.payload),
                   last.now) \in {1, 2}

\* what the claim says of the timer: set to now + 5000 by a first sync or
\* resync, cleared by the tick at which it fires, untouched otherwise
TimerRule ==
    /\ AdvertSynced => node[last.n].pending_advert_time = last.now + 5000
    /\ (last.op = "rx" /\ ~AdvertSynced) =>
           node[last.n].pending_advert_time = last.pre.pending_advert_time
    /\ last.op = "tick" =>
           node[last.n].pending_advert_time =
               (IF TimerElapsed THEN 0 ELSE last.pre.pending_advert_time)

\* C33 as stated: a tick emits an advert exactly when (a) or (b) holds
C33_AsStated ==
    /\ TimerRule
    /\ last.op = "tick" =>
           /\ OwnAdvertsOut <= 1
           /\ OwnAdvertsOut = 1 <=> (TimerElapsed \/ BeaconDue)

\* C33: a tick that finds fewer than 4 packets queued emits an advert exactly
\* when (a) the pending post-sync timer is set and has elapsed (set to now +
\* 5000 ms by an advert-driven first sync or resync, cleared when it fires) or
\* (b) the node is synchronized and now - last_advert_time >= 300,000 ms; with
\* 4 packets queued the advert is built and counted but dropped; a tick emits
\* at most one advert, and none when neither (a) nor (b) holds
C33_AdvertOnTick ==
    /\ TimerRule
    /\ last.op = "tick" =>
           /\ OwnAdvertsOut <= 1
           /\ OwnAdvertsOut = 1 <=>
                  (/\ TimerElapsed \/ BeaconDue
                   /\ Len(last.pre.tx_queue) < MC_TX_QUEUE_SIZE)
           /\ node[last.n].stats.adv_tx_count - last.pre.stats.adv_tx_count =
                  (IF TimerElapsed \/ BeaconDue THEN 1 ELSE 0)

\* a tick 300,000 ms after the post-sync advert has emitted the periodic one
C33_Witness ==
    /\ last.op = "tick"
    /\ ~TimerElapsed
    /\ BeaconDue
    /\ last.pre.stats.adv_tx_count = 1
    /\ OwnAdvertsOut = 1

(***************************************************************************)
(* SpecSlots: the repeater of SpecMboxNode whose clock is also set by      *)
(* hand, TimeSync.set_time, while frames for the silent peer X arrive      *)
(***************************************************************************)
\* the times handed to set_time: the epoch, and the wall-clock time of the peers
SlotSetTimes == {0, T0}

\* TimeSync.set_time(unix_time) on the repeater, between two receptions
SlotSetTime ==
    \E unix_time \in SlotSetTimes :
        /\ ~MboxTickDue
        /\ clock > 0
        /\ node["R1"].time_sync.base_timestamp # unix_time
        /\ node' = [node EXCEPT !["R1"].time_sync = set_time(@, unix_time, clock)]
        /\ last' = [op |-> "set_time", n |-> "R1", now |-> clock,
                    pre |-> node["R1"]]
        /\ UNCHANGED <<clock, air, hist>>

NextSlots == MboxAdvert \/ MboxFrame \/ MboxTick \/ MboxAdvance \/ SlotSetTime

SpecSlots == InitMboxNode /\ [][NextSlots]_vars

\* C34: every mailbox slot that holds bytes has a nonzero stored-at timestamp
\* and a nonzero destination fingerprint, and every empty slot has destination
\* 0 and timestamp 0
C34_SlotFields ==
    \A n \in DOMAIN node : \A i \in AllIdx :
        LET s == node[n].mailbox[i]
        IN  /\ ~is_empty(s) => (s.timestamp # 0 /\ s.dest_hash # 0)
            /\ is_empty(s) => (s.dest_hash = 0 /\ s.timestamp = 0)

\* the part of C34 the code keeps: a held slot has a destination, an empty
\* slot has neither destination nor timestamp
SlotDestKept ==
    \A n \in DOMAIN node : \A i \in AllIdx :
        LET s == node[n].mailbox[i]
        IN  /\ ~is_empty(s) => s.dest_hash # 0
            /\ is_empty(s) => (s.dest_hash = 0 /\ s.timestamp = 0)

\* a frame was stored by a repeater whose clock had been set by hand
StoredAfterSetTime ==
    /\ RepeaterRx
    /\ last.pre.time_sync.base_timestamp = T0
    /\ last.pre.time_sync.base_millis > 0
    /\ \E i \in AllIdx : is_empty(last.pre.mailbox[i]) /\ ~is_empty(node[last.n].mailbox[i])

(***************************************************************************)
(* SpecSeen: a SeenNodesTracker on its own, filled past its capacity       *)
(***************************************************************************)
\* fingerprints handed to update: one more than the table holds
SeenHashes == 1..(MC_MAX_SEEN_NODES + 1)

\* fingerprints that are sighted again while they are in the table
SeenRepeat == {1, 2}

\* the reception values of a repeated sighting
SeenSamples == {[rssi |-> MC_MIN_RSSI_FORWARD, snr |-> CB_SNR_THRESHOLD],
                [rssi |-> LINK_RSSI - 1, snr |-> LINK_SNR + 1]}

\* repeated sightings and evictions in one behaviour
SeenMaxLogged == 2

\* the clock of the tracker's owner, in milliseconds
SeenMaxClock == 1

InitSeen ==
    /\ clock = 0
    /\ node = [n \in {"T"} |-> [seen_nodes |-> <<>>]]
    /\ air = {}
    /\ hist = [n \in {"T"} |-> <<>>]
    /\ last = NoLast

\* SeenNodesTracker.update(hash_val, rssi, snr, None, now_ms); hist keeps the
\* fingerprints of the updates that met a known entry or a full table
SeenUpdate(hash_val, rssi, snr) ==
    LET nodes == node["T"].seen_nodes
        logged == SeenIndex(nodes, hash_val) # 0
                  \/ Len(nodes) = MC_MAX_SEEN_NODES
    IN  /\ logged => Len(hist["T"]) < SeenMaxLogged
        /\ node' = [node EXCEPT !["T"].seen_nodes =
                       SeenNodesTracker_update(@, hash_val, rssi, snr, <<>>, clock)]
        /\ hist' = [hist EXCEPT !["T"] = IF logged THEN Append(@, hash_val) ELSE @]
        /\ last' = [op |-> "update", n |-> "T", hash |-> hash_val, rssi |-> rssi,
                    snr |-> snr, now |-> clock, pre |-> nodes]
        /\ UNCHANGED <<clock, air>>

\* the least fingerprint the table does not hold
LeastUnknown(nodes) ==
    FirstOf({h \in SeenHashes : SeenIndex(nodes, h) = 0})

\* a sighting of a fingerprint the table does not hold
SeenNew ==
    /\ Len(node["T"].seen_nodes) < Cardinality(SeenHashes)
    /\ SeenUpdate(LeastUnknown(node["T"].seen_nodes), LINK_RSSI, LINK_SNR)

\* a sighting of a fingerprint the table holds
SeenAgain ==
    \E h \in SeenRepeat, s \in SeenSamples :
        /\ SeenIndex(node["T"].seen_nodes, h) # 0
        /\ SeenUpdate(h, s.rssi, s.snr)

SeenAdvance == clock < SeenMaxClock /\ Advance(1)

NextSeen == SeenNew \/ SeenAgain \/ SeenAdvance

SpecSeen == InitSeen /\ [][NextSeen]_vars

\* every entry of table post but the one at index k is as in table pre
OthersKept(pre, post, k) ==
    /\ Len(post) = Len(pre)
    /\ \A j \in 1..Len(pre) : j # k => post[j] = pre[j]

\* C35: the sighting table holds at most 16 entries with pairwise distinct
\* fingerprints; an update for a known fingerprint adds one to its packet count
\* and refreshes RSSI, SNR and last-seen in place; an update for an unknown
\* fingerprint on a full table replaces exactly an entry of smallest last-seen
\* and leaves the other 15 unchanged
C35_SightingTable ==
    LET post == node["T"].seen_nodes
    IN  /\ Len(post) <= 16
        /\ \A i, j \in 1..Len(post) : i # j => post[i].hash # post[j].hash
        /\ last.op = "update" =>
             LET pre == last.pre
                 known == {i \in 1..Len(pre) : pre[i].hash = last.hash}
             IN  /\ \A i \in known :
                       /\ OthersKept(pre, post, i)
                       /\ post[i] = [pre[i] EXCEPT !.pkt_count = @ + 1,
                                                   !.last_rssi = last.rssi,
                                                   !.last_snr = last.snr,
                                                   !.last_seen = last.now]
                 /\ (known = {} /\ Len(pre) = 16) =>
                       \E k \in 1..16 :
                           /\ \A j \in 1..16 : pre[k].last_seen <= pre[j].last_seen
                           /\ OthersKept(pre, post, k)
                           /\ post[k].hash = last.hash
                           /\ post[k].pkt_count = 1
                           /\ post[k].last_seen = last.now

\* C35 case: an unknown fingerprint met a full table whose first entry had been
\* sighted again later than the others
C35_Witness ==
    /\ last.op = "update"
    /\ Len(last.pre) = MC_MAX_SEEN_NODES
    /\ SeenIndex(last.pre, last.hash) = 0
    /\ \E j \in 2..MC_MAX_SEEN_NODES : last.pre[j].last_seen < last.pre[1].last_seen
    /\ last.pre[1].pkt_count > 1
    /\ node["T"].seen_nodes[1] = last.pre[1]

(***************************************************************************)
(* SpecTolerance: a TimeSync on its own; the log keeps, for every call of  *)
(* sync_from_advert, how the timestamp stood to the local time             *)
(***************************************************************************)
\* calls of sync_from_advert in one behaviour
TolMaxCalls == 4

\* how far, in seconds, an advert's timestamp is from the time of the object
TolOffsets == {0, 299, 300, 0 - 1000}

\* how the timestamp of a call stands to the time state ts at clock now
TolClass(ts, unix_time, now) ==
    IF TimestampImplausible(unix_time) THEN "implausible"
    ELSE IF ~ts.synchronized THEN "first"
    ELSE IF Abs(unix_time - get_timestamp(ts, now)) < 300 THEN "in"
    ELSE "out"

\* TimeSync.sync_from_advert(unix_time) at the current clock
TolSync(unix_time) ==
    /\ node' = [node EXCEPT !["T"].time_sync = sync_from_advert(@, unix_time, clock)]
    /\ hist' = [hist EXCEPT !["T"] =
                   Append(@, [class |-> TolClass(node["T"].time_sync, unix_time, clock),
                              out |-> sync_result(node["T"].time_sync, unix_time, clock),
                              pending |-> node["T"].time_sync.pending_timestamp])]
    /\ last' = [op |-> "sync_from_advert", unix_time |-> unix_time, now |-> clock,
                pre |-> node["T"].time_sync,
                out |-> sync_result(node["T"].time_sync, unix_time, clock)]
    /\ UNCHANGED <<clock, air>>

TolAdvert ==
    \E d \in TolOffsets :
        /\ Len(hist["T"]) < TolMaxCalls
        /\ TolSync((IF node["T"].time_sync.synchronized
                    THEN get_timestamp(node["T"].time_sync, clock) ELSE T0) + d)

TolBadAdvert == Len(hist["T"]) < TolMaxCalls /\ TolSync(TsTooEarly)

\* VirtualClock.advance between two calls
TolAdvance ==
    /\ last.op = "sync_from_advert"
    /\ Len(hist["T"]) < TolMaxCalls
    /\ clock' = clock + ADVERT_AFTER_SYNC_MS
    /\ last' = [op |-> "advance", now |-> clock, pre |-> node["T"].time_sync]
    /\ UNCHANGED <<node, air, hist>>

NextTolerance == TolAdvert \/ TolBadAdvert \/ TolAdvance

SpecTolerance == InitTimeSync /\ [][NextTolerance]_vars

ImplausibleIgnored ==
    /\ last.op = "sync_from_advert"
    /\ TimestampImplausible(last.unix_time)
    /\ last.pre.synchronized /\ last.pre.pending_timestamp > 0
    /\ node["T"].time_sync = last.pre

(***************************************************************************)
(* SpecTriangleLive: the triangle under the runner's schedule: every step  *)
(* ticks each node and delivers what is in flight                          *)
(***************************************************************************)
\* weak fairness of the ticks and of the deliveries, the guard of each action
\* standing for its enabledness
TriFair ==
    /\ []<>(~LinQueued) \/ []<><<TriTick>>_vars
    /\ []<>(air = {}) \/ []<><<LinDeliver>>_vars

SpecTriangleLive == SpecTriangle /\ TriFair

\* the packets queued or in flight anywhere in the mesh
InMesh ==
    UNION {{node[n].tx_queue[i] : i \in 1..Len(node[n].tx_queue)} : n \in DOMAIN node}
    \cup {e.pkt : e \in air}

\* no frame is queued or in flight
MeshSilent == air = {} /\ ~LinQueued

\* no fingerprint twice in path p
Simple(p) == \A i, j \in 1..Len(p) : i # j => p[i] # p[j]

\* every copy a repeater has just queued carries the received path and one hop more
OneHopLonger ==
    RepeaterRx =>
        \A i \in 1..Len(QueuedBy) :
            /\ Len(QueuedBy[i].path) = Len(last.pkt.path) + 1
            /\ SubSeq(QueuedBy[i].path, 1, Len(last.pkt.path)) = last.pkt.path

\* the paths of an originated flood frame and of its copies
PathsBounded ==
    /\ \A p \in InMesh : Simple(p.path) /\ Len(p.path) <= Cardinality(DOMAIN node)
    /\ OneHopLonger

\* C37: flood propagation terminates: every copy's path holds no fingerprint
\* twice and is one hop longer than the copy it was made from, so that no path
\* is longer than the number of nodes, and the mesh comes to a state from which
\* no copy of the frame is queued or in flight
C37_FloodTerminates == [](PathsBounded) /\ <>[](MeshSilent)

\* C37 case: the mesh is silent again after R1's frame went round the triangle
\* both ways, R2 and X each having forwarded it twice
C37_Witness ==
    /\ MeshSilent
    /\ node["R1"].stats.tx_count = 1
    /\ node["R2"].stats.fwd_count = 2
    /\ node["X"].stats.fwd_count = 2
    /\ RepeaterRx
    /\ Len(last.pkt.path) = Cardinality(DOMAIN node)

(***************************************************************************)
(* SpecEcho: the line R1 - R2 - X; R1 originates a ping or a trace to X,   *)
(* or an advert, X answers, and every copy R2 forwards comes back to its   *)
(* originator                                                              *)
(***************************************************************************)
\* commands given to R1 in one behaviour
EchoMaxCmds == 1

EchoCmd ==
    \E c \in {"ping", "trace", "advert"} :
        /\ node["R1"].stats.tx_count < EchoMaxCmds
        /\ air = {} /\ ~LinQueued
        /\ Cmd("R1", c, Hash.X)

NextEcho == EchoCmd \/ LinTick \/ LinDeliver

SpecEcho == InitLinear /\ [][NextEcho]_vars

\* frame p, whatever its path, is a ping, trace, pong or trace response that
\* node nd sent
OwnPlainCopy(nd, p) ==
    OwnPlain(nd, [p EXCEPT !.path = <<nd.identity.hash>>])

\* frame p, whatever its path, is an advert of node nd
OwnAdvertCopy(nd, p) == OwnAdvert(nd, [p EXCEPT !.path = <<>>])

\* the last handler neither counted a forward nor queued a copy of the frame
NotForwarded == ~Forwarded /\ NoCopyQueued

\* C38: a repeater never forwards a frame it originated: when a neighbour's
\* forwarded copy of its own ping, trace, reply or advert comes back, the copy
\* is not queued and the forward counter is unchanged
C38_NoSelfForward ==
    (RepeaterRx /\ (OwnPlainCopy(last.pre, last.pkt) \/ OwnAdvertCopy(last.pre, last.pkt)))
        => NotForwarded

\* the part of C38 the code keeps: the copies of its own ping, trace, pong and
\* trace response
OwnPlainNotForwarded ==
    (RepeaterRx /\ OwnPlainCopy(last.pre, last.pkt)) => NotForwarded

\* X has received R2's copy of its own pong
OwnPongBack ==
    /\ RepeaterRx
    /\ last.n = "X"
    /\ OwnPlainCopy(last.pre, last.pkt)
    /\ last.pkt.path = <<Hash.X, Hash.R2>>
    /\ <<last.pkt.payload[3], last.pkt.payload[4]>> = <<80, 79>>

\* R1 has forwarded R2's copy of its own advert
OwnAdvertForwarded ==
    /\ RepeaterRx
    /\ last.n = "R1"
    /\ OwnAdvertCopy(last.pre, last.pkt)
    /\ last.pkt.path = <<Hash.R2>>
    /\ Forwarded
    /\ Last(node["R1"].tx_queue).path = <<Hash.R2, Hash.R1>>

(***************************************************************************)
(* SpecAdmission: repeater R1 receives frames at a good and at too weak a  *)
(* signal, once and again, with the breaker of R2 open or not and with the *)
(* rate limiter exhausted by a burst or not                                *)
(***************************************************************************)
\* zero-hop adverts of R2 received in one behaviour
AdmMaxAdverts == 2

\* other frames received in one behaviour, the burst apart
AdmMaxFrames == 2

\* a request addressed to R1 itself
AdmSelfReq ==
    MkPacket(make_header(MC_ROUTE_FLOOD, MC_PAYLOAD_REQUEST, MC_PAYLOAD_VER_1),
             <<Hash.S>>, <<Hash.R1, Hash.S, 1>>)

AdmFrames == {FloodPing, FloodLoop, DirectChain, DirectOther, AdmSelfReq}

AdmLevels == {MC_MIN_RSSI_FORWARD - 1, LINK_RSSI}

\* the frames of the burst: requests from S to D that differ in their last byte
IsBurst(pkt) ==
    /\ get_payload_type(pkt.header) = MC_PAYLOAD_REQUEST
    /\ is_flood(pkt)
    /\ pkt.payload[1] = Hash.D

\* a burst is under way: it goes on until the limiter blocks
InBurst == last.op = "rx" /\ IsBurst(last.pkt) /\ ~Saturated

\* frames received outside the burst
AdmCount ==
    node["R1"].stats.rx_count - node["R1"].stats.adv_rx_count
        - (IF Saturated THEN RATE_LIMIT_FORWARD_MAX + 1 ELSE 0)

\* a burst of distinct flood frames within one runner step, begun before
\* anything else was received
AdmBurst ==
    /\ node["R1"].stats.rx_count = 0 \/ InBurst
    /\ Rx("R1", RlFrame, LINK_RSSI, LINK_SNR)

\* a zero-hop advert of R2 heard at an SNR below the breaker threshold
AdmAdvert ==
    /\ ~InBurst
    /\ node["R1"].tx_queue = <<>>
    /\ node["R1"].stats.adv_rx_count < AdmMaxAdverts
    /\ Rx("R1", CbAdvertOf("R2"), LINK_RSSI, CB_SNR_THRESHOLD - 1)

AdmFrame ==
    \E f \in AdmFrames, rssi \in AdmLevels :
        /\ ~InBurst
        /\ node["R1"].tx_queue = <<>>
        /\ AdmCount < AdmMaxFrames
        /\ Rx("R1", f, rssi, LINK_SNR)

AdmTick == ~InBurst /\ node["R1"].tx_queue # <<>> /\ Tick("R1", {})

NextAdmission == AdmBurst \/ AdmAdvert \/ AdmFrame \/ AdmTick

SpecAdmission == InitMboxNode /\ [][NextAdmission]_vars

\* the last received frame as _should_forward sees it, and its fingerprint
AdmPkt == StampRx(last.pkt, last.rssi, last.snr, last.now)
AdmId == get_packet_id(AdmPkt)

\* the last received frame passed the route-class, RSSI, direct next-hop and
\* self-addressed checks
EarlyChecksPass == PassesBeforeDedup(last.pre, AdmPkt)

\* the loop and path-length checks, the rate limiter and the breaker let the
\* last received frame pass
LaterChecksPass ==
    /\ is_flood(AdmPkt) =>
          /\ ~Contains(AdmPkt.path, last.pre.identity.hash)
          /\ Len(AdmPkt.path) < MC_MAX_PATH_SIZE - 1
    /\ RateLimiter_allows(last.pre.forward_limiter, last.now \div 1000)
    /\ ~(/\ is_direct(AdmPkt)
         /\ Len(AdmPkt.path) >= 2
         /\ _is_circuit_open(last.pre.neighbours, AdmPkt.path[2]))

\* C39: a received frame's fingerprint is put into the dedup cache if and only
\* if the frame passes the route-class, RSSI, direct next-hop and self-addressed
\* checks, whatever the loop, path-length, rate-limit and breaker checks say;
\* a frame that fails the early checks leaves the cache unchanged; a frame
\* whose fingerprint is cached is not forwarded, and a frame that passes every
\* check with a fingerprint not cached is forwarded
C39_DedupPosition ==
    RepeaterRx =>
        LET pre == last.pre.packet_cache
            post == node[last.n].packet_cache
        IN  /\ EarlyChecksPass => PacketIdCache_has(post, AdmId)
            /\ (EarlyChecksPass /\ ~PacketIdCache_has(pre, AdmId)) =>
                  post = PacketIdCache_add_if_new(pre, AdmId)
            /\ (~EarlyChecksPass \/ PacketIdCache_has(pre, AdmId)) => post = pre
            /\ (EarlyChecksPass /\ PacketIdCache_has(pre, AdmId)) => NothingForwarded
            /\ (EarlyChecksPass /\ ~PacketIdCache_has(pre, AdmId) /\ LaterChecksPass)
                  => Forwarded

\* C39 case: the direct frame for the open next hop R2 is received a second
\* time; the first copy was recorded and dropped by the breaker, the second is
\* rejected as a duplicate
C39_Witness ==
    /\ RepeaterRx
    /\ last.pkt = DirectChain
    /\ EarlyChecksPass
    /\ _is_circuit_open(last.pre.neighbours, Hash.R2)
    /\ PacketIdCache_has(last.pre.packet_cache, AdmId)
    /\ last.pre.stats.fwd_count = 0
    /\ NothingForwarded

\* a frame dropped by the rate limiter is received a second time and rejected
\* as a duplicate
RateLimitedThenDuplicate ==
    /\ RepeaterRx
    /\ last.pkt = FloodPing
    /\ EarlyChecksPass
    /\ Saturated
    /\ PacketIdCache_has(last.pre.packet_cache, AdmId)
    /\ last.pre.stats.fwd_count = RATE_LIMIT_FORWARD_MAX
    /\ NothingForwarded

\* a frame rejected by the RSSI gate is received a second time at a good
\* signal and forwarded
WeakThenForwarded ==
    /\ RepeaterRx
    /\ last.pkt = FloodPing
    /\ last.pre.stats.rx_count = 1
    /\ last.pre.stats.fwd_count = 0
    /\ last.pre.packet_cache = PacketIdCache
    /\ Forwarded

(***************************************************************************)
(* SpecDelivery: repeater R1 stores frames for the silent peer X while its *)
(* TX queue fills with their forwarded copies, and X advertises again      *)
(***************************************************************************)
\* adverts of X received in one behaviour
DlvMaxAdverts == 3

\* frames for X received in one behaviour
DlvMaxFrames == 4

\* a request from S to X that no earlier reception carried
DlvFrameToX ==
    MkPacket(make_header(MC_ROUTE_FLOOD, MC_PAYLOAD_REQUEST, MC_PAYLOAD_VER_1),
             <<Hash.S>>, <<Hash.X, Hash.S, node["R1"].stats.rx_count>>)

DlvAdvert ==
    /\ node["R1"].stats.adv_rx_count < DlvMaxAdverts
    /\ Rx("R1", AdvertX, LINK_RSSI, LINK_SNR)

\* frames for X arrive once X has been sighted twice
DlvFrame ==
    /\ node["R1"].stats.adv_rx_count >= 2
    /\ node["R1"].stats.rx_count - node["R1"].stats.adv_rx_count < DlvMaxFrames
    /\ Rx("R1", DlvFrameToX, LINK_RSSI, LINK_SNR)

DlvTick == node["R1"].tx_queue # <<>> /\ Tick("R1", {})

\* the clock moves once, past the offline age of X
DlvAdvance ==
    /\ clock = 0
    /\ node["R1"].stats.adv_rx_count = 2
    /\ Advance(HEALTH_OFFLINE_MS + 1)

NextDelivery == DlvAdvert \/ DlvFrame \/ DlvTick \/ DlvAdvance

SpecDelivery == InitMboxNode /\ [][NextDelivery]_vars

\* the stored bytes d are held by a slot of mailbox mbox
Held(mbox, d) == \E i \in AllIdx : mbox[i].pkt_data = d

\* the stored bytes d are the bytes of a packet in queue q
QueuedBytes(q, d) == \E i \in 1..Len(q) : serialize(q[i]) = d

\* C40: mailbox delivery never loses a stored message: on an advert of a peer
\* with pending entries, every entry held before is afterwards in the TX queue
\* or still in the mailbox
C40_NoLoss ==
    AdvertWithPending =>
        \A j \in 1..Len(PendingData) :
            \/ Held(node[last.n].mailbox, PendingData[j].pkt_data)
            \/ QueuedBytes(node[last.n].tx_queue, PendingData[j].pkt_data)

\* C40, counting only: an advert takes no more entries out of the mailbox than
\* the TX queue accepts packets
C40_RemovedOnlyIfAccepted ==
    AdvertWithPending =>
        get_count(last.pre.mailbox) - get_count(node[last.n].mailbox)
            <= Len(node[last.n].tx_queue) - Len(last.pre.tx_queue)

\* an advert of X met four pending entries and a full TX queue: the mailbox is
\* empty afterwards and the queue holds what it held before
DeliveryDropped ==
    /\ AdvertWithPending
    /\ Len(PendingData) = 4
    /\ Len(last.pre.tx_queue) = MC_TX_QUEUE_SIZE
    /\ get_count(node[last.n].mailbox) = 0
    /\ node[last.n].tx_queue = last.pre.tx_queue

\* an advert of X met one pending entry and an empty TX queue: the entry is
\* gone and the packet queued for it has neither path nor payload
DeliveryEmptyPacket ==
    /\ AdvertWithPending
    /\ Len(PendingData) = 1
    /\ last.pre.tx_queue = <<>>
    /\ get_count(node[last.n].mailbox) = 0
    /\ Wire(node[last.n].tx_queue[1]) = Wire(MCPacket)

====
